---- MODULE Spec2Model ----
(***************************************************************************)
(* Verification model of the Zed updater repository.                       *)
(*                                                                         *)
(* The module holds several state machines over one set of variables, one  *)
(* per component of the update pipeline:                                   *)
(*   SpecCompare   ZedUpdater.compare_versions       (src/updater)         *)
(*   SpecInstall   ZedUpdater.install_update         (src/updater)         *)
(*   SpecDownload  ZedUpdater.download_update        (src/updater)         *)
(*   SpecSched     UpdateScheduler threads           (src/updater)         *)
(*   SpecPipeline  ZedUpdater.check_and_update       (src/src/zed_updater) *)
(* Each specification moves its own group of variables and leaves the      *)
(* other groups parked at a fixed value.                                   *)
(*                                                                         *)
(* Strings are sequences of one-character strings; file contents are       *)
(* sequences of byte tokens; NoFile stands for a path that does not exist. *)
(***************************************************************************)
EXTENDS Integers, Sequences, FiniteSets, TLC

VARIABLES
    \* ---- compare_versions ----
    cv_pc,          \* "input" | "called" | "both"
    cv_current,     \* first argument
    cv_latest,      \* second argument
    cv_result,      \* compare_versions(current, latest)
    cv_reverse      \* compare_versions(latest, current)

VARIABLES
    \* ---- install_update (src/updater/updater.py) ----
    in_pc,          \* position inside install_update, "idle" between calls
    in_calls,       \* number of install_update calls started so far
    now,            \* clock: ticks when a file is created
    fs_target,      \* file at zed_install_path
    fs_old,         \* file at the '.exe.old' sibling of zed_install_path
    fs_backups,     \* files in the backup directory
    in_pre,         \* fs_target as it was when the current call started
    in_kind,        \* what download_path is: "missing" | "zip" | "exe"
    in_source,      \* content of install_source
    in_temp_old,    \* local temp_old: TRUE once assigned, FALSE while None
    in_copy,        \* how the copy step of this call ended
    in_restore,     \* how the restoring rename of this call ended
    in_exc,         \* exception class that reached the outer handlers
    in_result,      \* return value of the call: "none" | "True" | "False"
    in_latest,      \* self.latest_version
    cfg_current_version, \* config setting 'current_version'
    cfg_backup_enabled   \* config setting 'backup_enabled'

VARIABLES
    \* ---- download_update (src/updater/updater.py) ----
    dl_pc,          \* position inside download_update, "idle" between calls
    dl_calls,       \* number of download_update calls started so far
    dl_script,      \* how the server answers the 1st, 2nd, ... request
    dl_attempt,     \* loop variable attempt of _retry_request
    dl_requests,    \* session.get calls issued by the current call
    dl_sleeps,      \* the waits of the current call, each <<num, den>>
    dl_resp,        \* the response _retry_request returned
    dl_file,        \* file at download_path
    dl_pre,         \* dl_file as it was when the current call started
    dl_end,         \* which return statement ended the current call
    dl_result       \* "none" | "None" | "path"

VARIABLES
    \* ---- UpdateScheduler (src/updater/scheduler.py) ----
    sc_is_running,  \* self.is_running
    sc_stop_event,  \* self.stop_event is set
    sc_jobs,        \* number of jobs registered with the schedule library
    sc_threads,     \* thread id -> [kind, pc, avail]
    sc_auto_download,    \* config setting 'auto_download'
    sc_auto_install,     \* config setting 'auto_install'
    sc_check_on_startup  \* config setting 'check_on_startup'

VARIABLES
    \* ---- check_and_update (src/src/zed_updater/core/updater.py) ----
    np_pc,          \* position inside check_and_update, "idle" between calls
    np_calls,       \* number of check_and_update calls started so far
    np_clock,       \* clock: ticks at every call
    np_force,       \* config 'force_download_latest'
    np_backup_enabled,  \* config 'backup_enabled'
    np_auto_start,  \* config 'auto_start_after_update'
    np_current,     \* what get_current_version returned
    np_latest,      \* version of the ReleaseInfo, NoneVal without one
    np_lookup,      \* how the release lookup of this call ended
    np_lookups,     \* requests to the releases endpoint, this call
    np_asset_requests,  \* requests to the asset URL, this call
    np_attempt,     \* loop variable attempt of download_update
    np_progress,    \* percent values passed to the progress callback
    np_target,      \* file at zed_install_path
    np_tmp,         \* file at the '.tmp' sibling of zed_install_path
    np_dl,          \* file at the download path
    np_backups,     \* files in the backup directory
    np_pre_target,  \* np_target as it was when the current call started
    np_backup_made, \* create_backup returned a path in this call
    np_ops_ok,      \* no file operation of this call's install has failed
    np_installs,    \* install_update calls made by this call
    np_started,     \* start_zed was called by this call
    np_result       \* the UpdateResult returned

VARIABLES
    cu_pc,          \* where the caller of check_and_update stands
    cu_runs,        \* calls of check_and_update made
    cu_callback,    \* whether a progress callback was passed
    cu_reports,     \* (percent) values the callback was called with
    cu_installed,   \* install_update returned True in this call
    cu_handled,     \* the failure handler of check_and_update ran
    cu_result       \* "True", "False", or "raised": an exception reached the caller

VARIABLES
    ns_thread,        \* where the worker thread stands; "none" before any start
    ns_stop_event,    \* _stop_event is set
    ns_is_running,    \* _status.is_running
    ns_next_run_time, \* _status.next_run_time, NoTime for None
    ns_last_run_time, \* _status.last_run_time, NoTime for None
    ns_last_result,   \* _status.last_result
    ns_caller,        \* where the thread calling the scheduler's methods stands
    ns_restart,       \* the stop() the caller is in was called by restart()
    ns_auto_check,    \* config 'auto_check_enabled'
    ns_now,           \* datetime.now()
    ns_calls,         \* method calls made by the caller
    ns_stops,         \* calls of stop() since the last start() that started a worker
    ns_checked        \* a scheduled check has run since the loop last computed next_run_time

VARIABLES
    cb_new,           \* _update_callbacks of the new scheduler
    cb_legacy,        \* update_callbacks of the legacy scheduler
    cb_notified,      \* the schedulers whose _notify_callbacks has run
    cb_registered,    \* per scheduler, the registrations when its last notification began
    cb_invoked,       \* per scheduler, the observers that notification called, in order
    cb_raised,        \* per scheduler, the calls among them that raised
    cb_propagated,    \* per scheduler, an exception left that _notify_callbacks
    cb_ops            \* registrations, removals and notifications made

cmpVars == <<cv_pc, cv_current, cv_latest, cv_result, cv_reverse>>

instVars == <<in_pc, in_calls, now, fs_target, fs_old, fs_backups, in_pre,
              in_kind, in_source, in_temp_old, in_copy, in_restore, in_exc,
              in_result, in_latest, cfg_current_version, cfg_backup_enabled>>

dlVars == <<dl_pc, dl_calls, dl_script, dl_attempt, dl_requests, dl_sleeps,
            dl_resp, dl_file, dl_pre, dl_end, dl_result>>

schedVars == <<sc_is_running, sc_stop_event, sc_jobs, sc_threads,
               sc_auto_download, sc_auto_install, sc_check_on_startup>>

pipeVars == <<np_pc, np_calls, np_clock, np_force, np_backup_enabled,
              np_auto_start, np_current, np_latest, np_lookup,
              np_lookups, np_asset_requests, np_attempt, np_progress,
              np_target, np_tmp,
              np_dl, np_backups, np_pre_target, np_backup_made, np_ops_ok,
              np_installs, np_started, np_result>>

cuVars == <<cu_pc, cu_runs, cu_callback, cu_reports, cu_installed,
            cu_handled, cu_result>>

nsVars == <<ns_thread, ns_stop_event, ns_is_running, ns_next_run_time,
            ns_last_run_time, ns_last_result, ns_caller, ns_restart,
            ns_auto_check, ns_now, ns_calls, ns_stops, ns_checked>>

cbVars == <<cb_new, cb_legacy, cb_notified, cb_registered, cb_invoked,
            cb_raised, cb_propagated, cb_ops>>

VARIABLES
    cf_class,         \* the Config class in use: updater/config.py or zed_updater/core/config.py
    cf_config,        \* self.config
    cf_lock,          \* the thread that holds self.lock, NoOwner when it is free
    cf_file,          \* the content of the config file
    cf_threads,       \* per thread: where it stands in its call, and what it carries
    cf_calls,         \* calls begun
    cf_nosave         \* a call was made with save=False

cfVars == <<cf_class, cf_config, cf_lock, cf_file, cf_threads, cf_calls,
            cf_nosave>>

VARIABLES
    sf_pc,            \* "input" before the call of _safe_filename_from_url, "done" after
    sf_url,           \* the argument, as urlparse takes it apart
    sf_platform,      \* os.name: which os.path is in use
    sf_result         \* the file name returned

sfVars == <<sf_pc, sf_url, sf_platform, sf_result>>

\* The two update tests of the legacy package on one pair of versions.
VARIABLES
    hv_pc,          \* "input" | "checked" | "asked" | "both" | "parked"
    hv_info,        \* get_latest_version_info returned a release
    hv_current,     \* get_current_version(): a string or None
    hv_latest,      \* latest_info['version']
    hv_notified,    \* update_available given to the observers, or "none"
    hv_has          \* has_update_available(), or "none" before the call

hvVars == <<hv_pc, hv_info, hv_current, hv_latest, hv_notified, hv_has>>

\* The components added to the first five.
extVars == <<cuVars, nsVars, cbVars, cfVars, sfVars, hvVars>>

vars == <<cmpVars, instVars, dlVars, schedVars, pipeVars, extVars>>

\* What each component leaves alone.
notCmp == <<instVars, dlVars, schedVars, pipeVars, extVars>>
notInst == <<cmpVars, dlVars, schedVars, pipeVars, extVars>>
notDl == <<cmpVars, instVars, schedVars, pipeVars, extVars>>
notSched == <<cmpVars, instVars, dlVars, pipeVars, extVars>>
notPipe == <<cmpVars, instVars, dlVars, schedVars, extVars>>
coreVars == <<cmpVars, instVars, dlVars, schedVars, pipeVars>>
notCu == <<coreVars, nsVars, cbVars, cfVars, sfVars, hvVars>>
notNs == <<coreVars, cuVars, cbVars, cfVars, sfVars, hvVars>>
notCb == <<coreVars, cuVars, nsVars, cfVars, sfVars, hvVars>>
notCf == <<coreVars, cuVars, nsVars, cbVars, sfVars, hvVars>>
notSf == <<coreVars, cuVars, nsVars, cbVars, cfVars, hvVars>>
notHv == <<coreVars, cuVars, nsVars, cbVars, cfVars, sfVars>>

-----------------------------------------------------------------------------
(* Strings                                                                 *)

Digits == {"0", "1", "2", "3", "4", "5", "6", "7", "8", "9"}

\* Python's None, kept apart from every string.
NoneVal == <<"<None>">>

\* int(c) for one digit character.
DigitVal(c) ==
    CASE c = "0" -> 0 [] c = "1" -> 1 [] c = "2" -> 2 [] c = "3" -> 3
      [] c = "4" -> 4 [] c = "5" -> 5 [] c = "6" -> 6 [] c = "7" -> 7
      [] c = "8" -> 8 [] c = "9" -> 9

\* str.isdigit(): non-empty and every character a digit.
IsDigit(s) == Len(s) > 0 /\ \A i \in 1..Len(s) : s[i] \in Digits

\* A comparison that takes equal strings for ordered (<= written for <).
RECURSIVE StrLessOrEqual(_, _)
StrLessOrEqual(s, t) ==
    IF s = <<>> THEN TRUE
    ELSE IF t = <<>> THEN FALSE
    ELSE IF Head(s) = Head(t) THEN StrLessOrEqual(Tail(s), Tail(t))
    ELSE DigitVal(Head(s)) < DigitVal(Head(t))

\* s < t on strings of digits (Python compares code points left to right,
\* a proper prefix being the smaller).
RECURSIVE StrLess(_, _)
StrLess(s, t) ==
    IF s = <<>> THEN t # <<>>
    ELSE IF t = <<>> THEN FALSE
    ELSE IF Head(s) = Head(t) THEN StrLess(Tail(s), Tail(t))
    ELSE DigitVal(Head(s)) < DigitVal(Head(t))

\* re.sub(r'[^\d.]', '', version)
RECURSIVE CleanVersion(_)
CleanVersion(s) ==
    IF s = <<>> THEN <<>>
    ELSE IF Head(s) \in Digits \cup {"."} THEN <<Head(s)>> \o CleanVersion(Tail(s))
    ELSE CleanVersion(Tail(s))

\* str.split('.'): the pieces between the dots, empty pieces included.
RECURSIVE SplitDots(_, _)
SplitDots(s, piece) ==
    IF s = <<>> THEN <<piece>>
    ELSE IF Head(s) = "." THEN <<piece>> \o SplitDots(Tail(s), <<>>)
    ELSE SplitDots(Tail(s), Append(piece, Head(s)))

\* int(p) for a string of digits.
RECURSIVE ToInt(_)
ToInt(p) ==
    IF p = <<>> THEN 0
    ELSE 10 * ToInt(SubSeq(p, 1, Len(p) - 1)) + DigitVal(p[Len(p)])

\* while len(parts) < 3: parts.append('0')
PadParts(parts) ==
    IF Len(parts) >= 3 THEN parts
    ELSE parts \o [i \in 1..(3 - Len(parts)) |-> <<"0">>]

\* parse_version: the first three components as integers; int('') raises
\* ValueError, reported as the value ParseError.
ParseError == <<"<ValueError>">>

\* A parse_version that reads an empty component as 0 instead of raising.
ParseVersionLenient(version) ==
    LET parts == PadParts(SplitDots(CleanVersion(version), <<>>))
        first == SubSeq(parts, 1, 3)
    IN  [i \in 1..3 |-> ToInt(first[i])]

ParseVersion(version) ==
    LET parts == PadParts(SplitDots(CleanVersion(version), <<>>))
        first == SubSeq(parts, 1, 3)
    IN  IF \E i \in 1..3 : first[i] = <<>> THEN ParseError
        ELSE [i \in 1..3 |-> ToInt(first[i])]

\* for c, l in zip(current_parts, latest_parts): first difference decides.
RECURSIVE ZipCompare(_, _)
ZipCompare(c, l) ==
    IF c = <<>> \/ l = <<>> THEN 0
    ELSE IF Head(c) < Head(l) THEN -1
    ELSE IF Head(c) > Head(l) THEN 1
    ELSE ZipCompare(Tail(c), Tail(l))

\* The mixed date/semantic branch of compare_versions.
MixedFormatResult(current, latest) == -1

\* ZedUpdater.compare_versions(current, latest)
compare_versions(current, latest) ==
    IF current = NoneVal \/ latest = NoneVal THEN -1     \* AttributeError
    ELSE IF IsDigit(current) /\ IsDigit(latest)
            /\ Len(current) = 8 /\ Len(latest) = 8
    THEN IF StrLess(current, latest) THEN -1
         ELSE IF StrLess(latest, current) THEN 1
         ELSE 0
    ELSE IF IsDigit(current) # IsDigit(latest)
    THEN MixedFormatResult(current, latest)
    ELSE LET cp == ParseVersion(current)
             lp == ParseVersion(latest)
         IN  IF cp = ParseError \/ lp = ParseError THEN -1   \* ValueError
             ELSE ZipCompare(cp, lp)

-----------------------------------------------------------------------------
(* Inputs of the comparison                                                *)

\* 8-digit date stamps YYYYMMDD.
DateStamps ==
    { <<"2", "0", "2", y, "0", m, d1, d2>> :
        y \in {"3", "4"}, m \in {"1", "9"}, d1 \in {"0", "1"}, d2 \in {"1", "5"} }

\* Dotted semantic versions.
SemVers ==
    { <<"1", ".", "0">>,
      <<"1", ".", "0", ".", "0">>,
      <<"1", ".", "0", ".", "0", ".", "1">>,
      <<"9", ".", "9", ".", "9">>,
      <<"0", ".", "1", "0", ".", "2">>,
      <<"v", "1", ".", "2", ".", "3">> }

\* Malformed or unusual version arguments.
OddVersions ==
    { <<>>,
      NoneVal,
      <<"b", "a", "d">>,
      <<"1", ".", ".", "2">>,
      <<"1", "2", "3">> }

VersionInputs == DateStamps \cup SemVers \cup OddVersions

CmpInit ==
    /\ cv_pc = "input"
    /\ cv_current \in VersionInputs
    /\ cv_latest \in VersionInputs
    /\ cv_result = 0
    /\ cv_reverse = 0

CmpPark ==
    /\ cv_pc = "parked"
    /\ cv_current = <<>>
    /\ cv_latest = <<>>
    /\ cv_result = 0
    /\ cv_reverse = 0

\* The caller asks compare_versions(current, latest).
CompareForward ==
    /\ cv_pc = "input"
    /\ cv_result' = compare_versions(cv_current, cv_latest)
    /\ cv_pc' = "called"
    /\ UNCHANGED <<cv_current, cv_latest, cv_reverse>>
    /\ UNCHANGED notCmp

\* The caller asks the other direction, compare_versions(latest, current).
CompareBackward ==
    /\ cv_pc = "called"
    /\ cv_reverse' = compare_versions(cv_latest, cv_current)
    /\ cv_pc' = "both"
    /\ UNCHANGED <<cv_current, cv_latest, cv_result>>
    /\ UNCHANGED notCmp

-----------------------------------------------------------------------------
(* Files                                                                   *)

NoFile == [exists |-> FALSE, bytes |-> <<>>, mtime |-> 0]

File(b, m) == [exists |-> TRUE, bytes |-> b, mtime |-> m]

\* The first k bytes of b.
Prefix(b, k) == SubSeq(b, 1, k)

\* The executable installed before the first update.
OriginalExe == <<"M", "Z", "a">>

\* Executables a release can deliver (directly or inside a zip).
GoodExe == <<"M", "Z", "b", "b">>

\* A payload that does not start with the DOS header.
NotAnExe == <<"P", "K", "x">>

-----------------------------------------------------------------------------
(* ZedUpdater.install_update, src/updater/updater.py                       *)

\* Calls of install_update explored.
MaxInstalls == 4

\* DEFAULT_CONFIG['backup_count']
backup_count == 3

Min(a, b) == IF a < b THEN a ELSE b

\* _cleanup_old_backups: the backups sorted by modification time, newest
\* first, all after the first backup_count deleted. Files of equal mtime keep
\* the directory listing's order, so any of them may be the one kept.
KeptBackups(files) ==
    IF backup_count <= 0 THEN {files}
    ELSE { K \in SUBSET files :
             /\ Cardinality(K) = Min(backup_count, Cardinality(files))
             /\ \A k \in K : \A d \in files \ K : k.mtime >= d.mtime }

\* The versions get_latest_version_info may have left in self.latest_version.
LatestChoices ==
    { NoneVal,
      <<"2", "0", "2", "4", "0", "1", "1", "5">>,
      <<"1", ".", "0", ".", "0">> }

\* The exception classes install_update's outer handlers name.
OuterExceptions == {"PermissionError", "OSError", "Exception"}

\* b'MZ' check of the install source.
HasMZHeader(b) == Len(b) >= 2 /\ b[1] = "M" /\ b[2] = "Z"

InstInit ==
    /\ in_pc = "idle"
    /\ in_calls = 0
    /\ now = 1
    /\ fs_target \in {File(OriginalExe, 0), NoFile}
    /\ fs_old = NoFile
    /\ fs_backups = {}
    /\ in_pre = NoFile
    /\ in_kind = "none"
    /\ in_source = <<>>
    /\ in_temp_old = FALSE
    /\ in_copy = "none"
    /\ in_restore = "none"
    /\ in_exc = "none"
    /\ in_result = "none"
    /\ in_latest = NoneVal
    /\ cfg_current_version = <<>>
    /\ cfg_backup_enabled \in BOOLEAN

InstPark ==
    /\ in_pc = "parked"
    /\ in_calls = 0
    /\ now = 0
    /\ fs_target = NoFile
    /\ fs_old = NoFile
    /\ fs_backups = {}
    /\ in_pre = NoFile
    /\ in_kind = "none"
    /\ in_source = <<>>
    /\ in_temp_old = FALSE
    /\ in_copy = "none"
    /\ in_restore = "none"
    /\ in_exc = "none"
    /\ in_result = "none"
    /\ in_latest = NoneVal
    /\ cfg_current_version = <<>>
    /\ cfg_backup_enabled = FALSE

\* install_update is entered (lines 607-622). The install directory exists;
\* a missing download path returns False at once.
InstallBegin ==
    /\ in_pc \in {"idle", "done"}
    /\ in_calls < MaxInstalls
    /\ \E kind \in {"missing", "zip", "exe"}, latest \in LatestChoices :
         /\ in_kind' = kind
         /\ in_latest' = latest
         /\ IF kind = "missing"
            THEN in_pc' = "done" /\ in_result' = "False"
            ELSE in_pc' = "stop" /\ in_result' = "none"
    /\ in_calls' = in_calls + 1
    /\ in_pre' = fs_target
    /\ in_source' = <<>>
    /\ in_temp_old' = FALSE
    /\ in_copy' = "none"
    /\ in_restore' = "none"
    /\ in_exc' = "none"
    /\ UNCHANGED <<now, fs_target, fs_old, fs_backups,
                   cfg_current_version, cfg_backup_enabled>>
    /\ UNCHANGED notInst

\* self._stop_zed_processes() (line 625): it handles psutil's own errors and
\* ImportError; anything else leaves install_update's try block.
StopZedProcesses ==
    /\ in_pc = "stop"
    /\ \E exc \in {"none"} \cup OuterExceptions :
         /\ in_exc' = exc
         /\ in_pc' = IF exc = "none" THEN "backup" ELSE "outer"
    /\ UNCHANGED <<in_calls, now, fs_target, fs_old, fs_backups, in_pre,
                   in_kind, in_source, in_temp_old, in_copy, in_restore,
                   in_result, in_latest, cfg_current_version,
                   cfg_backup_enabled>>
    /\ UNCHANGED notInst

\* create_backup() (lines 541-576) with _cleanup_old_backups (578-605), then
\* the 2 s wait. copy2 gives the backup the target's modification time. A
\* failed backup is logged and the install goes on.
CreateBackup ==
    /\ in_pc = "backup"
    /\ \E copyOk \in BOOLEAN :
         IF cfg_backup_enabled /\ fs_target.exists /\ copyOk
         THEN /\ \E K \in KeptBackups(fs_backups \cup
                     { [id |-> now, mtime |-> fs_target.mtime,
                        bytes |-> fs_target.bytes] }) :
                   fs_backups' = K
              /\ now' = now + 1
         ELSE UNCHANGED <<fs_backups, now>>
    /\ in_pc' = "extract"
    /\ UNCHANGED <<in_calls, fs_target, fs_old, in_pre, in_kind, in_source,
                   in_temp_old, in_copy, in_restore, in_exc, in_result,
                   in_latest, cfg_current_version, cfg_backup_enabled>>
    /\ UNCHANGED notInst

\* Lines 635-646: a '.zip' download is unpacked by _extract_exe_from_zip,
\* which returns None on any failure; any other download is used as it is.
ExtractSource ==
    /\ in_pc = "extract"
    /\ \E payload \in {GoodExe, NotAnExe}, extracted \in BOOLEAN :
         IF in_kind = "zip" /\ ~extracted
         THEN /\ in_pc' = "done"
              /\ in_result' = "False"
              /\ UNCHANGED in_source
         ELSE /\ in_pc' = "verify"
              /\ in_source' = payload
              /\ UNCHANGED in_result
    /\ UNCHANGED <<in_calls, now, fs_target, fs_old, fs_backups, in_pre,
                   in_kind, in_temp_old, in_copy, in_restore, in_exc,
                   in_latest, cfg_current_version, cfg_backup_enabled>>
    /\ UNCHANGED notInst

\* Lines 648-657: the install source must open and start with b'MZ'.
VerifyExecutable ==
    /\ in_pc = "verify"
    /\ \E opened \in BOOLEAN :
         IF opened /\ HasMZHeader(in_source)
         THEN in_pc' = "swap" /\ UNCHANGED in_result
         ELSE in_pc' = "done" /\ in_result' = "False"
    /\ UNCHANGED <<in_calls, now, fs_target, fs_old, fs_backups, in_pre,
                   in_kind, in_source, in_temp_old, in_copy, in_restore,
                   in_exc, in_latest, cfg_current_version,
                   cfg_backup_enabled>>
    /\ UNCHANGED notInst

\* Lines 660-672: an existing target is renamed to the '.exe.old' sibling,
\* a stale sibling being removed first. Either file operation may raise.
RenameAside ==
    /\ in_pc = "swap"
    /\ IF fs_target.exists
       THEN /\ in_temp_old' = TRUE
            /\ \E fail \in {"none", "unlink", "rename"} :
                 IF fail = "unlink" /\ fs_old.exists
                 THEN /\ in_pc' = "handler"
                      /\ UNCHANGED <<fs_target, fs_old>>
                 ELSE IF fail = "rename"
                 THEN /\ in_pc' = "handler"
                      /\ fs_old' = NoFile
                      /\ UNCHANGED fs_target
                 ELSE /\ in_pc' = "copy"
                      /\ fs_old' = fs_target
                      /\ fs_target' = NoFile
       ELSE /\ in_pc' = "copy"
            /\ UNCHANGED <<in_temp_old, fs_target, fs_old>>
    /\ UNCHANGED <<in_calls, now, fs_backups, in_pre, in_kind, in_source,
                   in_copy, in_restore, in_exc, in_result, in_latest,
                   cfg_current_version, cfg_backup_enabled>>
    /\ UNCHANGED notInst

\* What shutil.copy2(install_source, zed_path) (line 676) can leave behind:
\*   "ok"            the whole source, with the source's modification time
\*   "raise_before"  an exception before the destination is created
\*   "raise_partial" an exception after k bytes were written (k may be 0, or
\*                   all of them when only the metadata copy fails)
\*   "short"         a normal return with fewer bytes than the source has
CopyOutcomes == {"ok", "raise_before", "raise_partial", "short"}

CopyNewFile ==
    /\ in_pc = "copy"
    /\ \E outcome \in CopyOutcomes, k \in 0..Len(in_source) :
         /\ in_copy' = outcome
         /\ CASE outcome = "ok" ->
                   /\ fs_target' = File(in_source, now)
                   /\ in_pc' = "check"
              [] outcome = "raise_before" ->
                   /\ UNCHANGED fs_target
                   /\ in_pc' = "handler"
              [] outcome = "raise_partial" ->
                   /\ fs_target' = File(Prefix(in_source, k), now)
                   /\ in_pc' = "handler"
              [] outcome = "short" ->
                   /\ k < Len(in_source)
                   /\ fs_target' = File(Prefix(in_source, k), now)
                   /\ in_pc' = "check"
    /\ now' = now + 1
    /\ UNCHANGED <<in_calls, fs_old, fs_backups, in_pre, in_kind, in_source,
                   in_temp_old, in_restore, in_exc, in_result, in_latest,
                   cfg_current_version, cfg_backup_enabled>>
    /\ UNCHANGED notInst

\* A replace block that trusts the copy: the size test of lines 678-689 is
\* left out.
VerifyCopySkipped ==
    /\ in_pc = "check"
    /\ in_pc' = "cleanup"
    /\ UNCHANGED <<in_calls, now, fs_target, fs_old, fs_backups, in_pre,
                   in_kind, in_source, in_temp_old, in_copy, in_restore,
                   in_exc, in_result, in_latest, cfg_current_version,
                   cfg_backup_enabled>>
    /\ UNCHANGED notInst

\* Lines 678-689: the copy must exist and have the source's size.
VerifyCopy ==
    /\ in_pc = "check"
    /\ IF fs_target.exists /\ Len(fs_target.bytes) = Len(in_source)
       THEN in_pc' = "cleanup"
       ELSE in_pc' = "handler"
    /\ UNCHANGED <<in_calls, now, fs_target, fs_old, fs_backups, in_pre,
                   in_kind, in_source, in_temp_old, in_copy, in_restore,
                   in_exc, in_result, in_latest, cfg_current_version,
                   cfg_backup_enabled>>
    /\ UNCHANGED notInst

\* The guard of the restoring rename (line 693).
ShouldRestore == in_temp_old /\ fs_old.exists /\ ~fs_target.exists

\* Lines 690-699: the handler of the replace block. The original is renamed
\* back only under ShouldRestore; the rename itself may raise, which is
\* logged. The call returns False.
RestoreOriginal ==
    /\ in_pc = "handler"
    /\ IF ShouldRestore
       THEN \E renamed \in BOOLEAN :
              IF renamed
              THEN /\ fs_target' = fs_old
                   /\ fs_old' = NoFile
                   /\ in_restore' = "renamed"
              ELSE /\ UNCHANGED <<fs_target, fs_old>>
                   /\ in_restore' = "failed"
       ELSE /\ UNCHANGED <<fs_target, fs_old>>
            /\ in_restore' = "skipped"
    /\ in_pc' = "done"
    /\ in_result' = "False"
    /\ UNCHANGED <<in_calls, now, fs_backups, in_pre, in_kind, in_source,
                   in_temp_old, in_copy, in_exc, in_latest,
                   cfg_current_version, cfg_backup_enabled>>
    /\ UNCHANGED notInst

\* Lines 701-707: the '.exe.old' sibling is deleted; a failure is logged.
DeleteOld ==
    /\ in_pc = "cleanup"
    /\ \E unlinked \in BOOLEAN :
         IF fs_old.exists /\ unlinked
         THEN fs_old' = NoFile
         ELSE UNCHANGED fs_old
    /\ in_pc' = "record"
    /\ UNCHANGED <<in_calls, now, fs_target, fs_backups, in_pre, in_kind,
                   in_source, in_temp_old, in_copy, in_restore, in_exc,
                   in_result, in_latest, cfg_current_version,
                   cfg_backup_enabled>>
    /\ UNCHANGED notInst

\* Lines 709-719: the new version is recorded when latest_version is set,
\* and the call returns True. cfg_current_version is the value in the
\* configuration file: set_setting (config.py 168-178) saves through
\* save_config, which swallows a failed write (126-154).
RecordVersion ==
    /\ in_pc = "record"
    /\ \E saved \in BOOLEAN :
         IF in_latest # NoneVal /\ in_latest # <<>> /\ saved
         THEN cfg_current_version' = in_latest
         ELSE UNCHANGED cfg_current_version
    /\ in_pc' = "done"
    /\ in_result' = "True"
    /\ UNCHANGED <<in_calls, now, fs_target, fs_old, fs_backups, in_pre,
                   in_kind, in_source, in_temp_old, in_copy, in_restore,
                   in_exc, in_latest, cfg_backup_enabled>>
    /\ UNCHANGED notInst

\* Lines 721-769: the three outer handlers do the same recovery. When an
\* '.exe.old' sibling exists the target is deleted and the sibling renamed
\* onto it; either operation may raise, which is logged. The call returns
\* False.
OuterRecover ==
    /\ in_pc = "outer"
    /\ IF fs_old.exists
       THEN \E fail \in {"none", "unlink", "rename"} :
              IF fail = "unlink" /\ fs_target.exists
              THEN /\ UNCHANGED <<fs_target, fs_old>>
                   /\ in_restore' = "failed"
              ELSE IF fail = "rename"
              THEN /\ fs_target' = NoFile
                   /\ UNCHANGED fs_old
                   /\ in_restore' = "failed"
              ELSE /\ fs_target' = fs_old
                   /\ fs_old' = NoFile
                   /\ in_restore' = "renamed"
       ELSE /\ UNCHANGED <<fs_target, fs_old>>
            /\ in_restore' = "skipped"
    /\ in_pc' = "done"
    /\ in_result' = "False"
    /\ UNCHANGED <<in_calls, now, fs_backups, in_pre, in_kind, in_source,
                   in_temp_old, in_copy, in_exc, in_latest,
                   cfg_current_version, cfg_backup_enabled>>
    /\ UNCHANGED notInst

-----------------------------------------------------------------------------
(* ZedUpdater.download_update and _retry_request, src/updater/updater.py   *)

\* Calls of download_update explored.
MaxDownloads == 2

\* DEFAULT_CONFIG['retry_count']
retry_count == 3

\* backoff_factor=1.5 passed by download_update, as the fraction 3/2.
BackoffNum == 3
BackoffDen == 2

\* retry_count taken as the number of retries after the first attempt.
MaxRetriesPlusOne == retry_count + 1

\* max_retries as download_update passes it to _retry_request.
MaxRetries == retry_count

\* HTTP statuses of a response that raise_for_status lets through.
StatusOK == 200
StatusNoContent == 204

RECURSIVE Power(_, _)
Power(b, n) == IF n = 0 THEN 1 ELSE b * Power(b, n - 1)

\* wait_time = backoff_factor ** attempt
WaitTime(attempt) == <<Power(BackoffNum, attempt), Power(BackoffDen, attempt)>>

\* What a request can end in: an exception of the requests library (also an
\* error status turned into HTTPError by raise_for_status), any other
\* exception, or a response.
FetchKinds == {"RequestException", "Exception", "response"}

\* The server's answers to the requests of one call; one more than
\* max_retries are scripted so that an extra request would be seen.
Scripts == [1..(retry_count + 1) -> FetchKinds]

\* Complete bodies a download URL can serve.
FullBodies ==
    { <<"M", "Z", "x">>,
      <<"P", "K", "03", "04", "y">>,
      <<"P", "K", "x", "x">>,
      <<"<", "h", "t">>,
      <<>> }

\* A response: its status, the content-length header (0 when absent), the
\* bytes iter_content delivers, and whether the stream raises after them.
Responses ==
    UNION { { [status |-> st, clen |-> IF reported THEN Len(full) ELSE 0,
               body |-> Prefix(full, k), raises |-> r] :
                st \in {StatusOK, StatusNoContent}, reported \in BOOLEAN,
                k \in 0..Len(full), r \in BOOLEAN } :
            full \in FullBodies }

NoResponse == [status |-> 0, clen |-> 0, body |-> <<>>, raises |-> FALSE]

\* A signature check that looks at two bytes only.
IsValidMagicTwoBytes(b) ==
    \/ Len(b) >= 2 /\ b[1] = "P" /\ b[2] = "K"
    \/ Len(b) >= 2 /\ b[1] = "M" /\ b[2] = "Z"

\* magic_bytes.startswith(b'PK\x03\x04') or magic_bytes.startswith(b'MZ')
IsValidMagic(b) ==
    \/ Len(b) >= 4 /\ b[1] = "P" /\ b[2] = "K" /\ b[3] = "03" /\ b[4] = "04"
    \/ Len(b) >= 2 /\ b[1] = "M" /\ b[2] = "Z"

\* total_size > 0 and actual_size != total_size
SizeMismatch(total_size, actual_size) ==
    total_size > 0 /\ actual_size # total_size

DlInit ==
    /\ dl_pc = "idle"
    /\ dl_calls = 0
    /\ dl_script \in Scripts
    /\ dl_attempt = 0
    /\ dl_requests = 0
    /\ dl_sleeps = <<>>
    /\ dl_resp = NoResponse
    /\ dl_file = NoFile
    /\ dl_pre = NoFile
    /\ dl_end = "none"
    /\ dl_result = "none"

DlPark ==
    /\ dl_pc = "parked"
    /\ dl_calls = 0
    /\ dl_script = <<>>
    /\ dl_attempt = 0
    /\ dl_requests = 0
    /\ dl_sleeps = <<>>
    /\ dl_resp = NoResponse
    /\ dl_file = NoFile
    /\ dl_pre = NoFile
    /\ dl_end = "none"
    /\ dl_result = "none"

\* download_update is entered (lines 381-422): without a download URL it
\* returns None; otherwise the path and the settings are worked out.
DownloadBegin ==
    /\ dl_pc \in {"idle", "done"}
    /\ dl_calls < MaxDownloads
    /\ dl_calls' = dl_calls + 1
    /\ \E script \in (IF dl_calls = 0 THEN {dl_script} ELSE Scripts),
          hasUrl \in BOOLEAN :
         /\ dl_script' = script
         /\ IF hasUrl
            THEN dl_pc' = "request" /\ dl_end' = "none" /\ dl_result' = "none"
            ELSE dl_pc' = "done" /\ dl_end' = "no_url" /\ dl_result' = "None"
    /\ dl_attempt' = 0
    /\ dl_requests' = 0
    /\ dl_sleeps' = <<>>
    /\ dl_resp' = NoResponse
    /\ dl_pre' = dl_file
    /\ UNCHANGED dl_file
    /\ UNCHANGED notDl

\* One pass of the loop of _retry_request (lines 292-307) with the handling
\* of its outcome in download_update (lines 425-442). A RequestException is
\* retried after a wait unless the attempt is the last; any other exception
\* leaves _retry_request at once; download_update turns every exception and
\* a loop that ended without a response into None.
RetryRequest ==
    /\ dl_pc = "request"
    /\ IF dl_attempt < MaxRetries
       THEN /\ dl_requests' = dl_requests + 1
            /\ LET kind == dl_script[dl_requests + 1]
               IN  CASE kind = "response" ->
                          /\ \E resp \in Responses : dl_resp' = resp
                          /\ dl_pc' = "status"
                          /\ UNCHANGED <<dl_attempt, dl_sleeps, dl_end,
                                         dl_result>>
                     [] kind = "RequestException"
                            /\ dl_attempt # MaxRetries - 1 ->
                          /\ dl_sleeps' = Append(dl_sleeps, WaitTime(dl_attempt))
                          /\ dl_attempt' = dl_attempt + 1
                          /\ UNCHANGED <<dl_pc, dl_resp, dl_end, dl_result>>
                     [] OTHER ->
                          /\ dl_pc' = "done"
                          /\ dl_end' = "fetch_failed"
                          /\ dl_result' = "None"
                          /\ UNCHANGED <<dl_attempt, dl_sleeps, dl_resp>>
       ELSE /\ dl_pc' = "done"
            /\ dl_end' = "no_response"
            /\ dl_result' = "None"
            /\ UNCHANGED <<dl_requests, dl_attempt, dl_sleeps, dl_resp>>
    /\ UNCHANGED <<dl_calls, dl_script, dl_file, dl_pre>>
    /\ UNCHANGED notDl

\* Lines 434-436: any status other than 200 returns None.
CheckStatus ==
    /\ dl_pc = "status"
    /\ IF dl_resp.status # StatusOK
       THEN dl_pc' = "done" /\ dl_end' = "bad_status" /\ dl_result' = "None"
       ELSE dl_pc' = "stream" /\ UNCHANGED <<dl_end, dl_result>>
    /\ UNCHANGED <<dl_calls, dl_script, dl_attempt, dl_requests, dl_sleeps,
                   dl_resp, dl_file, dl_pre>>
    /\ UNCHANGED notDl

\* Lines 444-463: the body is streamed into download_path, opened 'wb'.
\* Opening may fail, which leaves the path as it was; the stream (or the
\* progress callback) may raise after the delivered bytes were written.
StreamToDisk ==
    /\ dl_pc = "stream"
    /\ \E opened \in BOOLEAN :
         IF ~opened
         THEN dl_pc' = "write_error" /\ UNCHANGED dl_file
         ELSE /\ dl_file' = File(dl_resp.body, 0)
              /\ dl_pc' = IF dl_resp.raises THEN "write_error" ELSE "verify"
    /\ UNCHANGED <<dl_calls, dl_script, dl_attempt, dl_requests, dl_sleeps,
                   dl_resp, dl_pre, dl_end, dl_result>>
    /\ UNCHANGED notDl

\* Lines 464-473: after a write error the file, if there is one, is deleted
\* and None returned.
WriteErrorCleanup ==
    /\ dl_pc = "write_error"
    /\ dl_file' = NoFile
    /\ dl_pc' = "done"
    /\ dl_end' = "write_error"
    /\ dl_result' = "None"
    /\ UNCHANGED <<dl_calls, dl_script, dl_attempt, dl_requests, dl_sleeps,
                   dl_resp, dl_pre>>
    /\ UNCHANGED notDl

\* Lines 475-510: the written file is checked for its size against the
\* content-length, for being empty and for its first bytes; a file that
\* fails a check is deleted and None returned, otherwise the path is.
VerifyDownload ==
    /\ dl_pc = "verify"
    /\ LET actual_size == Len(dl_file.bytes)
       IN  IF SizeMismatch(dl_resp.clen, actual_size)
           THEN dl_end' = "size_mismatch" /\ dl_file' = NoFile
                /\ dl_result' = "None"
           ELSE IF actual_size = 0
           THEN dl_end' = "empty" /\ dl_file' = NoFile /\ dl_result' = "None"
           ELSE IF ~IsValidMagic(dl_file.bytes)
           THEN dl_end' = "bad_magic" /\ dl_file' = NoFile
                /\ dl_result' = "None"
           ELSE dl_end' = "ok" /\ UNCHANGED dl_file /\ dl_result' = "path"
    /\ dl_pc' = "done"
    /\ UNCHANGED <<dl_calls, dl_script, dl_attempt, dl_requests, dl_sleeps,
                   dl_resp, dl_pre>>
    /\ UNCHANGED notDl

\* check_and_update, lines 885-895: after a successful install the
\* downloaded file is deleted; after a failed one it stays where it is.
CleanupDownload ==
    /\ dl_pc = "done"
    /\ dl_result = "path"
    /\ dl_file.exists
    /\ dl_file' = NoFile
    /\ dl_pc' = "idle"
    /\ UNCHANGED <<dl_calls, dl_script, dl_attempt, dl_requests, dl_sleeps,
                   dl_resp, dl_pre, dl_end, dl_result>>
    /\ UNCHANGED notDl

-----------------------------------------------------------------------------
(* UpdateScheduler, src/updater/scheduler.py, driving the ZedUpdater of    *)
(* src/updater/updater.py from several threads                             *)

\* Threads spawned over the scheduler's life.
MaxThreads == 3

ThreadIds == 1..MaxThreads

NoThread == [kind |-> "none", pc |-> "none", avail |-> FALSE]

\* What get_current_version and get_latest_version_info can report to a
\* check (None: not determinable / lookup failed).
SchedCurrentVersions ==
    { NoneVal, <<>>,
      <<"2", "0", "2", "4", "0", "1", "0", "1">>,
      <<"1", ".", "0", ".", "0">> }

SchedLatestVersions ==
    { NoneVal,
      <<"2", "0", "2", "4", "0", "1", "1", "5">>,
      <<"1", ".", "0", ".", "0">> }

\* Python truth value of a version string.
Truthy(v) == v # NoneVal /\ v # <<>>

FreeIds == { t \in ThreadIds : sc_threads[t].kind = "none" }

\* The slot a newly started thread takes.
NextFree == CHOOSE t \in FreeIds : \A u \in FreeIds : t <= u

\* Where a thread goes when _check_for_updates returns: the worker back
\* into its loop's sleep, any other thread ends.
AfterCheck(t) == IF sc_threads[t].kind = "worker" THEN "sleep" ELSE "dead"

SetPc(t, pc) == [sc_threads EXCEPT ![t].pc = pc]

SchedInit ==
    /\ sc_is_running = FALSE
    /\ sc_stop_event = FALSE
    /\ sc_jobs = 0
    /\ sc_threads = [t \in ThreadIds |-> NoThread]
    /\ sc_auto_download \in BOOLEAN
    /\ sc_auto_install \in BOOLEAN
    /\ sc_check_on_startup \in BOOLEAN

SchedPark ==
    /\ sc_is_running = FALSE
    /\ sc_stop_event = FALSE
    /\ sc_jobs = 0
    /\ sc_threads = <<>>
    /\ sc_auto_download = FALSE
    /\ sc_auto_install = FALSE
    /\ sc_check_on_startup = FALSE

\* setup_schedule (lines 130-167) as it changes the thread table: with
\* check_on_startup a thread is started that sleeps 5 s and then checks.
WithStartupThread(threads, t) ==
    IF sc_check_on_startup
    THEN [threads EXCEPT ![t] = [kind |-> "startup", pc |-> "sleep5",
                                 avail |-> FALSE]]
    ELSE threads

\* start() (lines 185-205): nothing when already running; otherwise
\* setup_schedule, the stop event cleared and the worker thread started.
SchedStart ==
    /\ ~sc_is_running
    /\ Cardinality(FreeIds) >= 2
    /\ LET s == NextFree
           w == CHOOSE t \in FreeIds \ {s} : \A u \in FreeIds \ {s} : t <= u
           wid == IF sc_check_on_startup THEN w ELSE s
       IN  sc_threads' = [WithStartupThread(sc_threads, s) EXCEPT
                            ![wid] = [kind |-> "worker", pc |-> "loop",
                                      avail |-> FALSE]]
    /\ sc_jobs' = 1
    /\ sc_stop_event' = FALSE
    /\ sc_is_running' = TRUE
    /\ UNCHANGED <<sc_auto_download, sc_auto_install, sc_check_on_startup>>
    /\ UNCHANGED notSched

\* The thread table after the stop event was set and stop() has waited in
\* join: a worker at its loop test has seen the event and ended; each
\* sleeping worker in gone has woken in that time and ended; the others
\* are as they were.
AfterJoin(threads, gone) ==
    [t \in ThreadIds |->
        IF threads[t].kind = "worker"
           /\ (threads[t].pc = "loop" \/ (threads[t].pc = "sleep" /\ t \in gone))
        THEN [threads[t] EXCEPT !.pc = "dead"]
        ELSE threads[t]]

\* stop() (lines 207-226): nothing when not running; otherwise the stop
\* event is set, the worker joined for at most 5 s (a worker in its 60 s
\* sleep may still be alive afterwards), the jobs cleared.
SchedStop ==
    /\ sc_is_running
    /\ sc_stop_event' = TRUE
    /\ \E gone \in SUBSET ThreadIds : sc_threads' = AfterJoin(sc_threads, gone)
    /\ sc_jobs' = 0
    /\ sc_is_running' = FALSE
    /\ UNCHANGED <<sc_auto_download, sc_auto_install, sc_check_on_startup>>
    /\ UNCHANGED notSched

\* restart() (lines 228-233): stop(), a 1 s sleep, start(). stop() does
\* nothing on a stopped scheduler; start() then always finds it stopped,
\* clears the stop event and starts a new worker (and startup check).
SchedRestart ==
    /\ Cardinality(FreeIds) >= 2
    /\ \E gone \in SUBSET ThreadIds :
         LET joined == IF sc_is_running THEN AfterJoin(sc_threads, gone)
                       ELSE sc_threads
             s == NextFree
             w == CHOOSE t \in FreeIds \ {s} : \A u \in FreeIds \ {s} : t <= u
             wid == IF sc_check_on_startup THEN w ELSE s
         IN  sc_threads' = [WithStartupThread(joined, s) EXCEPT
                              ![wid] = [kind |-> "worker", pc |-> "loop",
                                        avail |-> FALSE]]
    /\ sc_jobs' = 1
    /\ sc_stop_event' = FALSE
    /\ sc_is_running' = TRUE
    /\ UNCHANGED <<sc_auto_download, sc_auto_install, sc_check_on_startup>>
    /\ UNCHANGED notSched

\* force_check_now() (lines 292-295): a new thread runs _check_for_updates.
SchedForceCheckNow ==
    /\ FreeIds # {}
    /\ sc_threads' = [sc_threads EXCEPT ![NextFree] =
                         [kind |-> "force", pc |-> "check", avail |-> FALSE]]
    /\ UNCHANGED <<sc_is_running, sc_stop_event, sc_jobs, sc_auto_download,
                   sc_auto_install, sc_check_on_startup>>
    /\ UNCHANGED notSched

\* update_schedule_config() (lines 297-301): a running scheduler sets its
\* schedule up again, which starts another startup-check thread.
SchedUpdateConfig ==
    /\ sc_is_running
    /\ FreeIds # {}
    /\ sc_threads' = WithStartupThread(sc_threads, NextFree)
    /\ sc_jobs' = 1
    /\ UNCHANGED <<sc_is_running, sc_stop_event, sc_auto_download,
                   sc_auto_install, sc_check_on_startup>>
    /\ UNCHANGED notSched

\* delayed_startup_check (lines 159-161): the 5 s sleep ends.
StartupWake(t) ==
    /\ sc_threads[t].kind = "startup"
    /\ sc_threads[t].pc = "sleep5"
    /\ sc_threads' = SetPc(t, "check")
    /\ UNCHANGED <<sc_is_running, sc_stop_event, sc_jobs, sc_auto_download,
                   sc_auto_install, sc_check_on_startup>>
    /\ UNCHANGED notSched

\* _scheduler_worker (lines 173-177): the loop test and schedule.run_pending,
\* which runs _check_for_updates in the worker thread when a job is due.
WorkerLoop(t) ==
    /\ sc_threads[t].kind = "worker"
    /\ sc_threads[t].pc = "loop"
    /\ \E due \in BOOLEAN :
         sc_threads' =
            IF sc_stop_event THEN SetPc(t, "dead")
            ELSE IF due /\ sc_jobs > 0 THEN SetPc(t, "check")
            ELSE SetPc(t, "sleep")
    /\ UNCHANGED <<sc_is_running, sc_stop_event, sc_jobs, sc_auto_download,
                   sc_auto_install, sc_check_on_startup>>
    /\ UNCHANGED notSched

\* _scheduler_worker (line 177): the 60 s sleep ends.
WorkerWake(t) ==
    /\ sc_threads[t].kind = "worker"
    /\ sc_threads[t].pc = "sleep"
    /\ sc_threads' = SetPc(t, "loop")
    /\ UNCHANGED <<sc_is_running, sc_stop_event, sc_jobs, sc_auto_download,
                   sc_auto_install, sc_check_on_startup>>
    /\ UNCHANGED notSched

\* _check_for_updates (lines 64-81): without release information it
\* returns; otherwise an update is announced when the current version is
\* known and compares older than the latest.
CheckForUpdates(t) ==
    /\ sc_threads[t].pc = "check"
    /\ \E current \in SchedCurrentVersions, latest \in SchedLatestVersions :
         sc_threads' =
            IF latest = NoneVal THEN SetPc(t, AfterCheck(t))
            ELSE [sc_threads EXCEPT
                    ![t].pc = "notify",
                    ![t].avail = Truthy(current)
                                 /\ compare_versions(current, latest) < 0]
    /\ UNCHANGED <<sc_is_running, sc_stop_event, sc_jobs, sc_auto_download,
                   sc_auto_install, sc_check_on_startup>>
    /\ UNCHANGED notSched

\* _check_for_updates (lines 82-92): the observers are notified; the update
\* goes on when one is available and auto_download is set.
NotifyCallbacks(t) ==
    /\ sc_threads[t].pc = "notify"
    /\ sc_threads' =
          IF sc_threads[t].avail /\ sc_auto_download
          THEN SetPc(t, "auto_update")
          ELSE SetPc(t, AfterCheck(t))
    /\ UNCHANGED <<sc_is_running, sc_stop_event, sc_jobs, sc_auto_download,
                   sc_auto_install, sc_check_on_startup>>
    /\ UNCHANGED notSched

\* _auto_update (lines 97-128): with auto_install it calls
\* updater.check_and_update, otherwise it only downloads.
AutoUpdate(t) ==
    /\ sc_threads[t].pc = "auto_update"
    /\ sc_threads' =
          IF sc_auto_install THEN SetPc(t, "check_and_update")
          ELSE SetPc(t, "download_only")
    /\ UNCHANGED <<sc_is_running, sc_stop_event, sc_jobs, sc_auto_download,
                   sc_auto_install, sc_check_on_startup>>
    /\ UNCHANGED notSched

\* _auto_update (lines 123-125): updater.download_update() and return.
DownloadOnly(t) ==
    /\ sc_threads[t].pc = "download_only"
    /\ sc_threads' = SetPc(t, AfterCheck(t))
    /\ UNCHANGED <<sc_is_running, sc_stop_event, sc_jobs, sc_auto_download,
                   sc_auto_install, sc_check_on_startup>>
    /\ UNCHANGED notSched

\* ZedUpdater.check_and_update (updater.py lines 857-883) up to the call of
\* install_update: the release lookup or the download may fail, which ends
\* the update. Nothing is locked before install_update is called.
CheckAndUpdateDownload(t) ==
    /\ sc_threads[t].pc = "check_and_update"
    /\ \E downloaded \in BOOLEAN :
         sc_threads' =
            IF downloaded THEN SetPc(t, "installing")
            ELSE SetPc(t, AfterCheck(t))
    /\ UNCHANGED <<sc_is_running, sc_stop_event, sc_jobs, sc_auto_download,
                   sc_auto_install, sc_check_on_startup>>
    /\ UNCHANGED notSched

\* install_update returns to check_and_update and that to _auto_update
\* (updater.py lines 883-903, scheduler.py lines 113-120).
InstallReturns(t) ==
    /\ sc_threads[t].pc = "installing"
    /\ sc_threads' = SetPc(t, AfterCheck(t))
    /\ UNCHANGED <<sc_is_running, sc_stop_event, sc_jobs, sc_auto_download,
                   sc_auto_install, sc_check_on_startup>>
    /\ UNCHANGED notSched

-----------------------------------------------------------------------------
(* ZedUpdater.check_and_update, src/src/zed_updater/core/updater.py        *)

\* Calls of check_and_update explored.
MaxPipelineRuns == 1

\* Chunks a download body arrives in.
MaxChunks == 2

\* ConfigData.retry_count
pipe_retry_count == 3

\* ConfigData.backup_count
pipe_backup_count == 3

\* progress_callback(80, ...) before install_update
InstallPercent == 80

UnknownVersion == <<"u", "n", "k", "n", "o", "w", "n">>

\* What get_current_version returns for an installed executable: a version
\* read from the file properties, one parsed from '--version', or "unknown".
PipeCurrents ==
    { UnknownVersion,
      <<"1", ".", "0", ".", "0">>,
      <<"0", ".", "1", "0", ".", "2">>,
      <<"1", ".", "2", ".", "3", ".", "4">> }

\* Versions of the latest release (tag_name.lstrip('v'), 'latest' for an
\* empty tag).
PipeLatests ==
    { <<"2", "0", "2", "4", "0", "1", "1", "5">>,
      <<"1", ".", "0", ".", "0">>,
      <<"1", ".", "0", ".", "1">>,
      <<"0", ".", "9">>,
      <<"l", "a", "t", "e", "s", "t">> }

\* Bodies the asset URL can deliver; download_update checks none of them.
PipeBodies == {GoodExe, NotAnExe}

\* re.findall(r'\d+', s): the maximal runs of digits, as integers.
RECURSIVE DigitRuns(_, _)
DigitRuns(s, run) ==
    IF s = <<>> THEN (IF run = <<>> THEN <<>> ELSE <<ToInt(run)>>)
    ELSE IF Head(s) \in Digits THEN DigitRuns(Tail(s), Append(run, Head(s)))
    ELSE (IF run = <<>> THEN <<>> ELSE <<ToInt(run)>>) \o DigitRuns(Tail(s), <<>>)

\* str.split('-')
RECURSIVE SplitDashes(_, _)
SplitDashes(s, piece) ==
    IF s = <<>> THEN <<piece>>
    ELSE IF Head(s) = "-" THEN <<piece>> \o SplitDashes(Tail(s), <<>>)
    ELSE SplitDashes(Tail(s), Append(piece, Head(s)))

DaysInMonth(y, m) ==
    IF m = 2
    THEN (IF (y % 4 = 0 /\ y % 100 # 0) \/ y % 400 = 0 THEN 29 ELSE 28)
    ELSE IF m \in {4, 6, 9, 11} THEN 30 ELSE 31

\* datetime.strptime(s, "%Y-%m-%d") succeeds.
IsDashDate(s) ==
    LET parts == SplitDashes(s, <<>>)
    IN  /\ Len(parts) = 3
        /\ \A i \in 1..3 : IsDigit(parts[i])
        /\ Len(parts[1]) = 4
        /\ Len(parts[2]) \in {1, 2}
        /\ Len(parts[3]) \in {1, 2}
        /\ ToInt(parts[1]) >= 1
        /\ ToInt(parts[2]) \in 1..12
        /\ ToInt(parts[3]) \in 1..DaysInMonth(ToInt(parts[1]), ToInt(parts[2]))

\* The date as one number, for latest_date > current_date.
DashDateValue(s) ==
    LET parts == SplitDashes(s, <<>>)
    IN  ToInt(parts[1]) * 10000 + ToInt(parts[2]) * 100 + ToInt(parts[3])

\* A length rule that takes equally long versions for newer (>= for >).
RECURSIVE LatestPartsNewerOrEqual(_, _)
LatestPartsNewerOrEqual(c, l) ==
    IF c = <<>> \/ l = <<>> THEN Len(l) >= Len(c)
    ELSE IF Head(l) > Head(c) THEN TRUE
    ELSE IF Head(l) < Head(c) THEN FALSE
    ELSE LatestPartsNewerOrEqual(Tail(c), Tail(l))

\* The loop over zip(current_parts, latest_parts) and the length rule.
RECURSIVE LatestPartsNewer(_, _)
LatestPartsNewer(c, l) ==
    IF c = <<>> \/ l = <<>> THEN Len(l) > Len(c)
    ELSE IF Head(l) > Head(c) THEN TRUE
    ELSE IF Head(l) < Head(c) THEN FALSE
    ELSE LatestPartsNewer(Tail(c), Tail(l))

\* ZedUpdater._is_newer_version(current, latest), lines 174-209
IsNewerVersion(current, latest) ==
    IF current = NoneVal \/ current = <<>> \/ current = UnknownVersion
    THEN TRUE
    ELSE IF IsDashDate(current) /\ IsDashDate(latest)
    THEN DashDateValue(latest) > DashDateValue(current)
    ELSE LET cp == DigitRuns(current, <<>>)
             lp == DigitRuns(latest, <<>>)
         IN  IF cp = <<>> \/ lp = <<>> THEN TRUE
             ELSE LatestPartsNewer(cp, lp)

\* _cleanup_old_backups, lines 293-317: with more than backup_count backups,
\* all but the backup_count of the latest modification time are deleted
\* (files of equal mtime in the directory listing's order).
PipeKeptBackups(files) ==
    IF Cardinality(files) > pipe_backup_count
    THEN { K \in SUBSET files :
             /\ Cardinality(K) = pipe_backup_count
             /\ \A k \in K : \A d \in files \ K : k.mtime >= d.mtime }
    ELSE {files}

\* How the request for the latest release can end: a usable release, an
\* exception of the transport, an error status (raise_for_status), a payload
\* that is not the expected JSON, or a release without a download asset.
LookupOutcomes ==
    {"ok", "transport_error", "http_error", "bad_payload", "no_assets"}

\* A lookup that also returns a release that has no download asset.
get_latest_version_info_any_release(outcome, release) ==
    IF outcome \in {"ok", "no_assets"} THEN release ELSE NoneVal

\* ZedUpdater.get_latest_version_info, lines 110-154: every exception is
\* logged and None returned, as for a release without assets.
get_latest_version_info(outcome, release) ==
    IF outcome = "ok" THEN release ELSE NoneVal

NoResult == [success |-> FALSE, code |-> "none", version |-> NoneVal]

Result(ok, code, version) == [success |-> ok, code |-> code, version |-> version]

PipeInit ==
    /\ np_pc = "idle"
    /\ np_calls = 0
    /\ np_clock = 1
    /\ np_force \in BOOLEAN
    /\ np_backup_enabled \in BOOLEAN
    /\ np_auto_start \in BOOLEAN
    /\ np_current = NoneVal
    /\ np_latest = NoneVal
    /\ np_lookup = "none"
    /\ np_lookups = 0
    /\ np_asset_requests = 0
    /\ np_attempt = 0
    /\ np_progress = <<>>
    /\ np_target \in {File(OriginalExe, 0), NoFile}
    /\ np_tmp = NoFile
    /\ np_dl = NoFile
    /\ np_backups = {}
    /\ np_pre_target = NoFile
    /\ np_backup_made = FALSE
    /\ np_ops_ok = TRUE
    /\ np_installs = 0
    /\ np_started = FALSE
    /\ np_result = NoResult

PipePark ==
    /\ np_pc = "parked"
    /\ np_calls = 0
    /\ np_clock = 0
    /\ np_force = FALSE
    /\ np_backup_enabled = FALSE
    /\ np_auto_start = FALSE
    /\ np_current = NoneVal
    /\ np_latest = NoneVal
    /\ np_lookup = "none"
    /\ np_lookups = 0
    /\ np_asset_requests = 0
    /\ np_attempt = 0
    /\ np_progress = <<>>
    /\ np_target = NoFile
    /\ np_tmp = NoFile
    /\ np_dl = NoFile
    /\ np_backups = {}
    /\ np_pre_target = NoFile
    /\ np_backup_made = FALSE
    /\ np_ops_ok = TRUE
    /\ np_installs = 0
    /\ np_started = FALSE
    /\ np_result = NoResult

\* check_and_update is entered and calls check_for_updates (lines 403-416,
\* 156-172); np_clock, the time of the call, stamps the files it writes.
\* The current version is read (None without an executable), the
\* latest release looked up (NoneVal when the lookup fails); without a
\* release, or with one that is not newer while force_download_latest is
\* off, the call returns success, "no updates".
PipeCheckForUpdates ==
    /\ np_pc \in {"idle", "done"}
    /\ np_calls < MaxPipelineRuns
    /\ np_calls' = np_calls + 1
    /\ \E current \in (IF np_target.exists THEN PipeCurrents ELSE {NoneVal}),
          outcome \in LookupOutcomes,
          release \in PipeLatests \cup {NoneVal} :
         LET latest == get_latest_version_info(outcome, release) IN
         /\ (release # NoneVal) = (outcome \in {"ok", "no_assets"})
         /\ np_current' = current
         /\ np_latest' = latest
         /\ np_lookup' = outcome
         /\ IF latest = NoneVal
               \/ ~(np_force \/ IsNewerVersion(current, latest))
            THEN /\ np_pc' = "done"
                 /\ np_result' = Result(TRUE, "none", NoneVal)
                 /\ np_progress' = <<>>
            ELSE /\ np_pc' = "download"
                 /\ np_result' = NoResult
                 /\ np_progress' = <<0>>
    /\ np_lookups' = 1
    /\ np_asset_requests' = 0
    /\ np_attempt' = 0
    /\ np_pre_target' = np_target
    /\ np_backup_made' = FALSE
    /\ np_ops_ok' = TRUE
    /\ np_installs' = 0
    /\ np_started' = FALSE
    /\ np_clock' = np_clock + 1
    /\ UNCHANGED <<np_force, np_backup_enabled, np_auto_start,
                   np_target, np_tmp, np_dl, np_backups>>
    /\ UNCHANGED notPipe

\* Percent values reported while a body of known size arrives in n chunks.
ChunkProgress(n) == [i \in 1..n |-> (i * 100) \div n]

\* One pass of the loop of download_update (lines 228-261) and the handling
\* of a failed download in check_and_update (419-424). A RequestException is
\* retried unless the attempt is the last; any other exception ends the
\* download; either may leave a partly written file. A response is written to
\* the download path unchecked.
PipeDownloadAttempt ==
    /\ np_pc = "download"
    /\ np_attempt < pipe_retry_count
    /\ np_asset_requests' = np_asset_requests + 1
    /\ \/ \E body \in PipeBodies, chunks \in 1..MaxChunks, sized \in BOOLEAN :
            /\ np_dl' = File(body, np_clock)
            /\ np_progress' =
                  IF sized
                  THEN np_progress \o ChunkProgress(chunks)
                  ELSE np_progress
            /\ np_pc' = "install"
            /\ UNCHANGED <<np_attempt, np_result>>
       \/ \E outcome \in {"RequestException", "Exception"},
             left \in {np_dl} \cup { File(Prefix(body, 1), np_clock) :
                                      body \in PipeBodies } :
            /\ np_dl' = left
            /\ IF outcome = "RequestException"
                  /\ np_attempt < pipe_retry_count - 1
               THEN /\ np_attempt' = np_attempt + 1
                    /\ UNCHANGED <<np_pc, np_result>>
               ELSE /\ np_pc' = "done"
                    /\ np_result' = Result(FALSE, "DOWNLOAD_FAILED", NoneVal)
                    /\ UNCHANGED np_attempt
            /\ UNCHANGED np_progress
    /\ UNCHANGED <<np_lookup, np_calls, np_clock, np_force, np_backup_enabled,
                   np_auto_start, np_current, np_latest, np_lookups,
                   np_target, np_tmp, np_backups, np_pre_target,
                   np_backup_made, np_ops_ok, np_installs, np_started>>
    /\ UNCHANGED notPipe

\* check_and_update lines 427-430 and install_update lines 319-330: 80 is
\* reported, the processes are stopped, and create_backup (263-291) prunes
\* the old backups and then copies the executable, returning None when
\* backups are off, there is no executable, or the copy fails.
PipeInstallBegin ==
    /\ np_pc = "install"
    /\ np_progress' = Append(np_progress, InstallPercent)
    /\ np_installs' = np_installs + 1
    /\ IF np_backup_enabled /\ np_target.exists
       THEN \E K \in PipeKeptBackups(np_backups), copied \in BOOLEAN :
              /\ np_backups' =
                    IF copied
                    THEN K \cup { [id |-> np_clock, mtime |-> np_target.mtime,
                                   bytes |-> np_target.bytes] }
                    ELSE K
              /\ np_backup_made' = copied
              /\ np_ops_ok' = copied
       ELSE UNCHANGED <<np_backups, np_backup_made, np_ops_ok>>
    /\ np_pc' = "aside"
    /\ UNCHANGED <<np_lookup, np_calls, np_clock, np_force, np_backup_enabled, np_auto_start,
                   np_current, np_latest, np_lookups, np_asset_requests,
                   np_attempt, np_target, np_tmp, np_dl, np_pre_target,
                   np_started, np_result>>
    /\ UNCHANGED notPipe

\* install_update lines 335-338: the executable is moved to the '.tmp'
\* sibling. A failure leaves the inner try untouched and is turned into
\* INSTALL_FAILED by the outer handler (369-376).
PipeMoveAside ==
    /\ np_pc = "aside"
    /\ IF np_target.exists
       THEN \E moved \in BOOLEAN :
              IF moved
              THEN /\ np_tmp' = np_target
                   /\ np_target' = NoFile
                   /\ np_pc' = "move"
                   /\ UNCHANGED <<np_ops_ok, np_result>>
              ELSE /\ np_pc' = "finish"
                   /\ np_result' = Result(FALSE, "INSTALL_FAILED", NoneVal)
                   /\ np_ops_ok' = FALSE
                   /\ UNCHANGED <<np_tmp, np_target>>
       ELSE /\ np_pc' = "move"
            /\ UNCHANGED <<np_tmp, np_target, np_ops_ok, np_result>>
    /\ UNCHANGED <<np_lookup, np_calls, np_clock, np_force, np_backup_enabled,
                   np_auto_start, np_current, np_latest, np_lookups,
                   np_asset_requests, np_attempt, np_progress, np_dl,
                   np_backups, np_pre_target, np_backup_made, np_installs,
                   np_started>>
    /\ UNCHANGED notPipe

\* install_update line 342: the download is moved onto the install path;
\* a failing move may have written part of the file.
PipeMoveNew ==
    /\ np_pc = "move"
    /\ \E outcome \in {"ok", "raise_before", "raise_partial"} :
         CASE outcome = "ok" ->
                /\ np_target' = np_dl
                /\ np_dl' = NoFile
                /\ np_pc' = "chmod"
                /\ UNCHANGED np_ops_ok
           [] outcome = "raise_before" ->
                /\ np_pc' = "restore"
                /\ np_ops_ok' = FALSE
                /\ UNCHANGED <<np_target, np_dl>>
           [] outcome = "raise_partial" ->
                /\ np_target' = File(Prefix(np_dl.bytes, 1), np_clock)
                /\ np_pc' = "restore"
                /\ np_ops_ok' = FALSE
                /\ UNCHANGED np_dl
    /\ UNCHANGED <<np_lookup, np_calls, np_clock, np_force, np_backup_enabled,
                   np_auto_start, np_current, np_latest, np_lookups,
                   np_asset_requests, np_attempt, np_progress, np_tmp,
                   np_backups, np_pre_target, np_backup_made, np_installs,
                   np_started, np_result>>
    /\ UNCHANGED notPipe

\* install_update line 345: os.chmod(zed_path, 0o755)
PipeChmod ==
    /\ np_pc = "chmod"
    /\ \E done \in BOOLEAN :
         IF done
         THEN np_pc' = "remove_tmp" /\ UNCHANGED np_ops_ok
         ELSE np_pc' = "restore" /\ np_ops_ok' = FALSE
    /\ UNCHANGED <<np_lookup, np_calls, np_clock, np_force, np_backup_enabled,
                   np_auto_start, np_current, np_latest, np_lookups,
                   np_asset_requests, np_attempt, np_progress, np_target,
                   np_tmp, np_dl, np_backups, np_pre_target, np_backup_made,
                   np_installs, np_started, np_result>>
    /\ UNCHANGED notPipe

\* install_update lines 347-349: the '.tmp' sibling is deleted.
PipeRemoveTmp ==
    /\ np_pc = "remove_tmp"
    /\ IF np_tmp.exists
       THEN \E unlinked \in BOOLEAN :
              IF unlinked
              THEN np_tmp' = NoFile /\ np_pc' = "result"
                   /\ UNCHANGED np_ops_ok
              ELSE np_pc' = "restore" /\ np_ops_ok' = FALSE
                   /\ UNCHANGED np_tmp
       ELSE np_pc' = "result" /\ UNCHANGED <<np_tmp, np_ops_ok>>
    /\ UNCHANGED <<np_lookup, np_calls, np_clock, np_force, np_backup_enabled,
                   np_auto_start, np_current, np_latest, np_lookups,
                   np_asset_requests, np_attempt, np_progress, np_target,
                   np_dl, np_backups, np_pre_target, np_backup_made,
                   np_installs, np_started, np_result>>
    /\ UNCHANGED notPipe

\* install_update lines 351-356: the success result is built with
\* version=self._extract_version_from_file(zed_path). ZedUpdater defines no
\* such method (nor does any other file), so the expression raises
\* AttributeError inside the inner try and the handler at 358 runs.
PipeBuildResult ==
    /\ np_pc = "result"
    /\ np_pc' = "restore"
    /\ UNCHANGED <<np_lookup, np_calls, np_clock, np_force, np_backup_enabled,
                   np_auto_start, np_current, np_latest, np_lookups,
                   np_asset_requests, np_attempt, np_progress, np_target,
                   np_tmp, np_dl, np_backups, np_pre_target, np_backup_made,
                   np_ops_ok, np_installs, np_started, np_result>>
    /\ UNCHANGED notPipe

\* install_update lines 358-376: the handler moves an existing '.tmp'
\* sibling back onto the install path (a failure is logged) and re-raises;
\* the outer handler returns INSTALL_FAILED.
PipeRestore ==
    /\ np_pc = "restore"
    /\ IF np_tmp.exists
       THEN \E moved \in BOOLEAN :
              IF moved
              THEN np_target' = np_tmp /\ np_tmp' = NoFile
              ELSE UNCHANGED <<np_target, np_tmp>>
       ELSE UNCHANGED <<np_target, np_tmp>>
    /\ np_result' = Result(FALSE, "INSTALL_FAILED", NoneVal)
    /\ np_pc' = "finish"
    /\ UNCHANGED <<np_lookup, np_calls, np_clock, np_force, np_backup_enabled,
                   np_auto_start, np_current, np_latest, np_lookups,
                   np_asset_requests, np_attempt, np_progress, np_dl,
                   np_backups, np_pre_target, np_backup_made, np_ops_ok,
                   np_installs, np_started>>
    /\ UNCHANGED notPipe

\* check_and_update lines 432-437: after a successful install Zed is started
\* when auto_start_after_update is set; the install's result is returned.
PipeFinish ==
    /\ np_pc = "finish"
    /\ np_started' = (np_result.success /\ np_auto_start)
    /\ np_pc' = "done"
    /\ UNCHANGED <<np_lookup, np_calls, np_clock, np_force, np_backup_enabled,
                   np_auto_start, np_current, np_latest, np_lookups,
                   np_asset_requests, np_attempt, np_progress, np_target,
                   np_tmp, np_dl, np_backups, np_pre_target, np_backup_made,
                   np_ops_ok, np_installs, np_result>>
    /\ UNCHANGED notPipe

-----------------------------------------------------------------------------
(* ZedUpdater.check_and_update, src/updater/updater.py                     *)

\* Calls of check_and_update explored.
MaxUpdateRuns == 2

\* Chunks a download body is written in.
MaxUpdateChunks == 2

\* p * 0.8, the share of the download in the progress reported.
DownloadShare == 80

\* progress_callback(80, ...) before install_update
InstallStart == 80

\* progress_callback(100, ...) after a successful install
UpdateComplete == 100

\* progress_callback(-1, ...) in the failure handler
FailureMark == -1

CuInit ==
    /\ cu_pc = "idle"
    /\ cu_runs = 0
    /\ cu_callback \in BOOLEAN
    /\ cu_reports = <<>>
    /\ cu_installed = FALSE
    /\ cu_handled = FALSE
    /\ cu_result = "none"

CuPark ==
    /\ cu_pc = "parked"
    /\ cu_runs = 0
    /\ cu_callback = FALSE
    /\ cu_reports = <<>>
    /\ cu_installed = FALSE
    /\ cu_handled = FALSE
    /\ cu_result = "none"

\* A call of the progress callback with value v, going to pc when it
\* returns: nothing happens without a callback; a callback is called and
\* may raise, which takes the call into the handler at line 899.
CuReport(v, pc) ==
    IF cu_callback
    THEN /\ cu_reports' = Append(cu_reports, v)
         /\ \E raises \in BOOLEAN :
              cu_pc' = IF raises THEN "handler" ELSE pc
    ELSE /\ cu_reports' = cu_reports
         /\ cu_pc' = pc

\* check_and_update is entered (lines 857-866): get_latest_version_info
\* handles its own exceptions; without release information the call
\* returns False.
CuLookup ==
    /\ cu_pc \in {"idle", "done"}
    /\ cu_runs < MaxUpdateRuns
    /\ cu_runs' = cu_runs + 1
    /\ cu_reports' = <<>>
    /\ cu_installed' = FALSE
    /\ cu_handled' = FALSE
    /\ \E found \in BOOLEAN :
         IF found
         THEN cu_pc' = "announce" /\ cu_result' = "none"
         ELSE cu_pc' = "done" /\ cu_result' = "False"
    /\ UNCHANGED cu_callback
    /\ UNCHANGED notCu

\* Lines 868-869: progress_callback(0, ...)
CuAnnounce ==
    /\ cu_pc = "announce"
    /\ CuReport(0, "download")
    /\ UNCHANGED <<cu_runs, cu_callback, cu_installed, cu_handled, cu_result>>
    /\ UNCHANGED notCu

\* Lines 871-877: download_update reports p * 0.8 for every chunk written
\* and handles every exception itself, one raised by the callback
\* included; without a path the call returns False.
CuDownload ==
    /\ cu_pc = "download"
    /\ \E n \in 0..MaxUpdateChunks, done \in 0..MaxUpdateChunks, ok \in BOOLEAN :
         /\ done <= n
         /\ ok => done = n
         /\ cu_reports' =
               IF cu_callback
               THEN cu_reports \o [i \in 1..done |-> (i * DownloadShare) \div n]
               ELSE cu_reports
         /\ IF ok
            THEN cu_pc' = "install_start" /\ UNCHANGED cu_result
            ELSE cu_pc' = "done" /\ cu_result' = "False"
    /\ UNCHANGED <<cu_runs, cu_callback, cu_installed, cu_handled>>
    /\ UNCHANGED notCu

\* Lines 880-881: progress_callback(80, ...)
CuInstallStart ==
    /\ cu_pc = "install_start"
    /\ CuReport(InstallStart, "install")
    /\ UNCHANGED <<cu_runs, cu_callback, cu_installed, cu_handled, cu_result>>
    /\ UNCHANGED notCu

\* Line 883: install_update handles every exception itself and returns a
\* bool; a failed install is returned as False.
CuInstall ==
    /\ cu_pc = "install"
    /\ \E success \in BOOLEAN :
         /\ cu_installed' = success
         /\ IF success
            THEN cu_pc' = "complete" /\ UNCHANGED cu_result
            ELSE cu_pc' = "done" /\ cu_result' = "False"
    /\ UNCHANGED <<cu_runs, cu_callback, cu_reports, cu_handled>>
    /\ UNCHANGED notCu

\* Lines 885-887: progress_callback(100, ...)
CuComplete ==
    /\ cu_pc = "complete"
    /\ CuReport(UpdateComplete, "cleanup")
    /\ UNCHANGED <<cu_runs, cu_callback, cu_installed, cu_handled, cu_result>>
    /\ UNCHANGED notCu

\* Lines 890-897: the download is deleted inside its own try, and the
\* install's result returned.
CuCleanup ==
    /\ cu_pc = "cleanup"
    /\ cu_pc' = "done"
    /\ cu_result' = "True"
    /\ UNCHANGED <<cu_runs, cu_callback, cu_reports, cu_installed, cu_handled>>
    /\ UNCHANGED notCu

\* Lines 899-903: the handler logs, calls progress_callback(-1, ...) when a
\* callback was passed, and returns False. The callback is called outside
\* any try: when it raises, the exception leaves check_and_update.
CuHandler ==
    /\ cu_pc = "handler"
    /\ cu_handled' = TRUE
    /\ cu_pc' = "done"
    /\ IF cu_callback
       THEN /\ cu_reports' = Append(cu_reports, FailureMark)
            /\ \E raises \in BOOLEAN :
                 cu_result' = IF raises THEN "raised" ELSE "False"
       ELSE /\ cu_reports' = cu_reports
            /\ cu_result' = "False"
    /\ UNCHANGED <<cu_runs, cu_callback, cu_installed>>
    /\ UNCHANGED notCu

-----------------------------------------------------------------------------
(* UpdateScheduler of zed_updater/core/scheduler.py                        *)

\* Method calls of the caller explored.
MaxNsCalls == 3

\* The last instant of the clock.
MaxNsClock == 2

\* next_run_time=None, last_run_time=None
NoTime == 0

\* How far after now the next run is put: the interval, or the time left
\* until check_time today or tomorrow.
NsDelays == {1, 2}

\* What check_and_update does for force_check_now: it returns a result with
\* or without success. The check_and_update of core/updater.py answers every
\* Exception of its body with a result, so the handler of force_check_now is
\* not entered by it.
CheckOutcomes == {"success", "failure"}

\* self._thread and self._thread.is_alive()
NsThreadAlive(t) == t \notin {"none", "dead"}

NsLoopRunsAlways(stop) == TRUE

\* while not self._stop_event.is_set()
NsLoopRuns(stop) == ~stop

update_next_run_time_now(auto_check, t, d) ==
    IF ~auto_check THEN NoTime ELSE t

\* _update_next_run_time: None when auto-check is disabled, else a time
\* after now.
update_next_run_time(auto_check, t, d) ==
    IF ~auto_check THEN NoTime ELSE t + d

NsInit ==
    /\ ns_thread = "none"
    /\ ns_stop_event = FALSE
    /\ ns_is_running = FALSE
    /\ ns_next_run_time = NoTime
    /\ ns_last_run_time = NoTime
    /\ ns_last_result = "None"
    /\ ns_caller = "idle"
    /\ ns_restart = FALSE
    /\ ns_auto_check \in BOOLEAN
    /\ ns_now = 1
    /\ ns_calls = 0
    /\ ns_stops = 0
    /\ ns_checked = FALSE

NsPark ==
    /\ ns_thread = "none"
    /\ ns_stop_event = FALSE
    /\ ns_is_running = FALSE
    /\ ns_next_run_time = NoTime
    /\ ns_last_run_time = NoTime
    /\ ns_last_result = "None"
    /\ ns_caller = "parked"
    /\ ns_restart = FALSE
    /\ ns_auto_check = FALSE
    /\ ns_now = 1
    /\ ns_calls = 0
    /\ ns_stops = 0
    /\ ns_checked = FALSE

\* The caller is free to make another call.
NsCall ==
    /\ ns_caller = "idle"
    /\ ns_calls < MaxNsCalls
    /\ ns_calls' = ns_calls + 1

\* The body of start(): refused while a worker is alive or auto-check is
\* disabled; else the event is cleared, a worker is started, is_running is
\* set and the next run time computed.
NsStartBody ==
    IF NsThreadAlive(ns_thread) \/ ~ns_auto_check
    THEN UNCHANGED <<ns_thread, ns_stop_event, ns_is_running,
                     ns_next_run_time, ns_stops, ns_checked>>
    ELSE /\ ns_stop_event' = FALSE
         /\ ns_thread' = "top"
         /\ ns_is_running' = TRUE
         /\ ns_stops' = 0
         /\ ns_checked' = FALSE
         /\ \E d \in NsDelays :
              ns_next_run_time' = update_next_run_time(ns_auto_check, ns_now, d)

\* start()
NsStart ==
    /\ NsCall
    /\ NsStartBody
    /\ UNCHANGED <<ns_last_run_time, ns_last_result, ns_caller, ns_restart,
                   ns_auto_check, ns_now>>
    /\ UNCHANGED notNs

\* stop() up to the join: returns False at once without a live worker, else
\* sets the event and joins the worker.
NsStop ==
    /\ NsCall
    /\ ns_stops' = ns_stops + 1
    /\ ns_checked' = ns_checked
    /\ IF NsThreadAlive(ns_thread)
       THEN /\ ns_stop_event' = TRUE
            /\ ns_caller' = "joining"
       ELSE UNCHANGED <<ns_stop_event, ns_caller>>
    /\ UNCHANGED <<ns_thread, ns_is_running, ns_next_run_time,
                   ns_last_run_time, ns_last_result, ns_restart,
                   ns_auto_check, ns_now>>
    /\ UNCHANGED notNs

\* restart() up to the join of its stop(); without a live worker stop()
\* returns at once and start() follows.
NsRestart ==
    /\ NsCall
    /\ IF NsThreadAlive(ns_thread)
       THEN /\ ns_stop_event' = TRUE
            /\ ns_caller' = "joining"
            /\ ns_restart' = TRUE
            /\ UNCHANGED <<ns_thread, ns_is_running, ns_next_run_time,
                           ns_stops, ns_checked>>
       ELSE /\ NsStartBody
            /\ UNCHANGED <<ns_caller, ns_restart>>
    /\ UNCHANGED <<ns_last_run_time, ns_last_result, ns_auto_check, ns_now>>
    /\ UNCHANGED notNs

\* join(timeout=5) returns, and stop() finishes: the worker has ended, or
\* five seconds went by with the worker inside an update check (every other
\* place of the loop is left within a second once the event is set). The
\* start() of a restart() follows.
NsStopReturns ==
    /\ ns_caller = "joining"
    /\ ns_thread \in {"dead", "check"}
    /\ ns_caller' = "idle"
    /\ ns_restart' = FALSE
    /\ IF ns_restart /\ ~NsThreadAlive(ns_thread) /\ ns_auto_check
       THEN /\ ns_stop_event' = FALSE
            /\ ns_thread' = "top"
            /\ ns_is_running' = TRUE
            /\ ns_stops' = 0
            /\ ns_checked' = FALSE
            /\ \E d \in NsDelays :
                 ns_next_run_time' =
                     update_next_run_time(ns_auto_check, ns_now, d)
       ELSE /\ ns_is_running' = FALSE
            /\ ns_next_run_time' = NoTime
            /\ UNCHANGED <<ns_thread, ns_stop_event, ns_stops, ns_checked>>
    /\ UNCHANGED <<ns_last_run_time, ns_last_result, ns_auto_check, ns_now,
                   ns_calls>>
    /\ UNCHANGED notNs

\* What force_check_now records once check_and_update is over: the time and
\* the result, or the SCHEDULE_FAILED result when it raised. The observers
\* are then notified (NotifyLoop).
NsRecord(outcome) ==
    IF outcome = "raised"
    THEN /\ ns_last_result' = "SCHEDULE_FAILED"
         /\ ns_last_run_time' = ns_last_run_time
    ELSE /\ ns_last_result' = outcome
         /\ ns_last_run_time' = ns_now

\* force_check_now() called from outside: check_and_update is called in the
\* calling thread.
NsForceCheckNow ==
    /\ NsCall
    /\ ns_caller' = "check"
    /\ UNCHANGED <<ns_thread, ns_stop_event, ns_is_running, ns_next_run_time,
                   ns_last_run_time, ns_last_result, ns_restart,
                   ns_auto_check, ns_now, ns_stops, ns_checked>>
    /\ UNCHANGED notNs

\* check_and_update comes back to force_check_now, which records the result
\* and returns it to the caller.
NsForceCheckReturns ==
    /\ ns_caller = "check"
    /\ \E outcome \in CheckOutcomes : NsRecord(outcome)
    /\ ns_caller' = "idle"
    /\ UNCHANGED <<ns_thread, ns_stop_event, ns_is_running, ns_next_run_time,
                   ns_restart, ns_auto_check, ns_now, ns_calls, ns_stops,
                   ns_checked>>
    /\ UNCHANGED notNs

\* update_schedule_config()
NsUpdateScheduleConfig ==
    /\ NsCall
    /\ IF ns_is_running /\ NsThreadAlive(ns_thread)
       THEN \E d \in NsDelays :
              ns_next_run_time' = update_next_run_time(ns_auto_check, ns_now, d)
       ELSE ns_next_run_time' = ns_next_run_time
    /\ UNCHANGED <<ns_thread, ns_stop_event, ns_is_running, ns_last_run_time,
                   ns_last_result, ns_caller, ns_restart, ns_auto_check,
                   ns_now, ns_stops, ns_checked>>
    /\ UNCHANGED notNs

\* The user switches 'auto_check_enabled'.
NsSetAutoCheck ==
    /\ NsCall
    /\ ns_auto_check' = ~ns_auto_check
    /\ UNCHANGED <<ns_thread, ns_stop_event, ns_is_running, ns_next_run_time,
                   ns_last_run_time, ns_last_result, ns_caller, ns_restart,
                   ns_now, ns_stops, ns_checked>>
    /\ UNCHANGED notNs

\* Time passes.
NsTick ==
    /\ ns_now < MaxNsClock
    /\ ns_now' = ns_now + 1
    /\ UNCHANGED <<ns_thread, ns_stop_event, ns_is_running, ns_next_run_time,
                   ns_last_run_time, ns_last_result, ns_caller, ns_restart,
                   ns_auto_check, ns_calls, ns_stops, ns_checked>>
    /\ UNCHANGED notNs

\* The head of the loop: it ends when the event is set; else the next run
\* time is computed and the worker waits for it, or for five minutes when
\* there is none.
NsWorkerTop ==
    /\ ns_thread = "top"
    /\ IF NsLoopRuns(ns_stop_event)
       THEN \E d \in NsDelays :
              /\ ns_next_run_time' =
                     update_next_run_time(ns_auto_check, ns_now, d)
              /\ ns_thread' = IF ns_next_run_time' # NoTime
                              THEN "wait" ELSE "idle"
       ELSE /\ ns_thread' = "dead"
            /\ ns_next_run_time' = ns_next_run_time
    /\ ns_checked' = FALSE
    /\ UNCHANGED <<ns_stop_event, ns_is_running, ns_last_run_time,
                   ns_last_result, ns_caller, ns_restart, ns_auto_check,
                   ns_now, ns_calls, ns_stops>>
    /\ UNCHANGED notNs

\* The wait for the next run time, in waits of 60 s on the event: the loop
\* is left when the event is set, the check starts when the time has come,
\* and the comparison with a next_run_time of None raises TypeError, which
\* the handler of the loop catches.
NsWorkerWait ==
    /\ ns_thread = "wait"
    /\ \/ /\ ns_stop_event
          /\ ns_thread' = "dead"
       \/ /\ ~ns_stop_event
          /\ ns_next_run_time = NoTime
          /\ ns_thread' = "error"
       \/ /\ ~ns_stop_event
          /\ ns_next_run_time # NoTime
          /\ ns_now >= ns_next_run_time
          /\ ns_thread' = "check"
    /\ UNCHANGED <<ns_stop_event, ns_is_running, ns_next_run_time,
                   ns_last_run_time, ns_last_result, ns_caller, ns_restart,
                   ns_auto_check, ns_now, ns_calls, ns_stops, ns_checked>>
    /\ UNCHANGED notNs

\* _stop_event.wait(300) without a schedule, over by timeout or by the event.
NsWorkerIdle ==
    /\ ns_thread = "idle"
    /\ ns_thread' = "top"
    /\ UNCHANGED <<ns_stop_event, ns_is_running, ns_next_run_time,
                   ns_last_run_time, ns_last_result, ns_caller, ns_restart,
                   ns_auto_check, ns_now, ns_calls, ns_stops, ns_checked>>
    /\ UNCHANGED notNs

\* _stop_event.wait(60) of the handler of the loop.
NsWorkerErrorWait ==
    /\ ns_thread = "error"
    /\ ns_thread' = "top"
    /\ UNCHANGED <<ns_stop_event, ns_is_running, ns_next_run_time,
                   ns_last_run_time, ns_last_result, ns_caller, ns_restart,
                   ns_auto_check, ns_now, ns_calls, ns_stops, ns_checked>>
    /\ UNCHANGED notNs

\* The scheduled force_check_now() comes back; time.sleep(1) follows.
NsWorkerCheckReturns ==
    /\ ns_thread = "check"
    /\ \E outcome \in CheckOutcomes : NsRecord(outcome)
    /\ ns_thread' = "sleep"
    /\ ns_checked' = TRUE
    /\ UNCHANGED <<ns_stop_event, ns_is_running, ns_next_run_time, ns_caller,
                   ns_restart, ns_auto_check, ns_now, ns_calls, ns_stops>>
    /\ UNCHANGED notNs

\* time.sleep(1) is over.
NsWorkerSleep ==
    /\ ns_thread = "sleep"
    /\ ns_thread' = "top"
    /\ UNCHANGED <<ns_stop_event, ns_is_running, ns_next_run_time,
                   ns_last_run_time, ns_last_result, ns_caller, ns_restart,
                   ns_auto_check, ns_now, ns_calls, ns_stops, ns_checked>>
    /\ UNCHANGED notNs

\* A step of the worker thread.
NsWorker ==
    \/ NsWorkerTop
    \/ NsWorkerWait
    \/ NsWorkerIdle
    \/ NsWorkerErrorWait
    \/ NsWorkerCheckReturns
    \/ NsWorkerSleep

-----------------------------------------------------------------------------
(* Observers of both schedulers                                            *)

\* Registrations, removals and notifications explored.
MaxCbOps == 6

\* Entries a list of callbacks holds at most.
MaxRegistrations == 2

Observers == {"A", "B"}

Schedulers == {"new", "legacy"}

\* What a call of an observer does: it returns, or raises an Exception.
ObserverOutcomes == {"return", "Exception"}

\* The elements of a list.
Registered(callbacks) == {callbacks[i] : i \in 1..Len(callbacks)}

\* New scheduler: a callback is appended unless it is in the list.
add_update_callback(callbacks, f) ==
    IF f \in Registered(callbacks) THEN callbacks ELSE Append(callbacks, f)

\* Legacy scheduler: a callback is appended.
add_update_callback_legacy(callbacks, f) == Append(callbacks, f)

\* list.remove: the list without the first entry equal to f.
RECURSIVE RemoveFirst(_, _)
RemoveFirst(callbacks, f) ==
    IF callbacks = <<>> THEN <<>>
    ELSE IF Head(callbacks) = f THEN Tail(callbacks)
    ELSE <<Head(callbacks)>> \o RemoveFirst(Tail(callbacks), f)

\* Both schedulers: the first entry equal to f is removed when there is one.
remove_update_callback(callbacks, f) ==
    IF f \in Registered(callbacks) THEN RemoveFirst(callbacks, f) ELSE callbacks

NotifyCatchesNothing(raised) == FALSE

\* except Exception
NotifyCatches(raised) == raised = "Exception"

\* The loop of _notify_callbacks from entry i on: the callback is called;
\* what it raises is caught and logged and the loop goes on, or leaves the
\* loop and the method when it is not caught.
RECURSIVE NotifyFrom(_, _, _, _)
NotifyFrom(callbacks, outcomes, i, done) ==
    IF i > Len(callbacks) THEN done
    ELSE LET called == [done EXCEPT !.invoked = Append(@, callbacks[i])]
         IN  IF outcomes[i] = "return"
             THEN NotifyFrom(callbacks, outcomes, i + 1, called)
             ELSE IF NotifyCatches(outcomes[i])
             THEN NotifyFrom(callbacks, outcomes, i + 1,
                             [called EXCEPT !.raised = @ \cup {i}])
             ELSE [called EXCEPT !.raised = @ \cup {i},
                                 !.propagated = TRUE]

\* _notify_callbacks
NotifyLoop(callbacks, outcomes) ==
    NotifyFrom(callbacks, outcomes, 1,
               [invoked |-> <<>>, raised |-> {}, propagated |-> FALSE])

CbInit ==
    /\ cb_new = <<>>
    /\ cb_legacy = <<>>
    /\ cb_notified = {}
    /\ cb_registered = [s \in Schedulers |-> <<>>]
    /\ cb_invoked = [s \in Schedulers |-> <<>>]
    /\ cb_raised = [s \in Schedulers |-> {}]
    /\ cb_propagated = [s \in Schedulers |-> FALSE]
    /\ cb_ops = 0

CbPark ==
    /\ cb_new = <<>>
    /\ cb_legacy = <<>>
    /\ cb_notified = {}
    /\ cb_registered = [s \in Schedulers |-> <<>>]
    /\ cb_invoked = [s \in Schedulers |-> <<>>]
    /\ cb_raised = [s \in Schedulers |-> {}]
    /\ cb_propagated = [s \in Schedulers |-> FALSE]
    /\ cb_ops = -1

\* Another operation on the observers may follow.
CbOp ==
    /\ cb_ops >= 0
    /\ cb_ops < MaxCbOps
    /\ cb_ops' = cb_ops + 1

\* add_update_callback of the new scheduler
CbAddNew ==
    /\ CbOp
    /\ \E f \in Observers :
         /\ Len(add_update_callback(cb_new, f)) <= MaxRegistrations
         /\ cb_new' = add_update_callback(cb_new, f)
    /\ UNCHANGED <<cb_legacy, cb_notified, cb_registered, cb_invoked,
                   cb_raised, cb_propagated>>
    /\ UNCHANGED notCb

\* add_update_callback of the legacy scheduler
CbAddLegacy ==
    /\ CbOp
    /\ Len(cb_legacy) < MaxRegistrations
    /\ \E f \in Observers : cb_legacy' = add_update_callback_legacy(cb_legacy, f)
    /\ UNCHANGED <<cb_new, cb_notified, cb_registered, cb_invoked,
                   cb_raised, cb_propagated>>
    /\ UNCHANGED notCb

\* remove_update_callback of the new scheduler
CbRemoveNew ==
    /\ CbOp
    /\ \E f \in Observers : cb_new' = remove_update_callback(cb_new, f)
    /\ UNCHANGED <<cb_legacy, cb_notified, cb_registered, cb_invoked,
                   cb_raised, cb_propagated>>
    /\ UNCHANGED notCb

\* remove_update_callback of the legacy scheduler
CbRemoveLegacy ==
    /\ CbOp
    /\ \E f \in Observers : cb_legacy' = remove_update_callback(cb_legacy, f)
    /\ UNCHANGED <<cb_new, cb_notified, cb_registered, cb_invoked,
                   cb_raised, cb_propagated>>
    /\ UNCHANGED notCb

\* A notification of scheduler s over its list: every call of an observer
\* returns or raises.
CbNotify(s, callbacks) ==
    /\ CbOp
    /\ \E outcomes \in [1..Len(callbacks) -> ObserverOutcomes] :
         LET end == NotifyLoop(callbacks, outcomes)
         IN  /\ cb_invoked' = [cb_invoked EXCEPT ![s] = end.invoked]
             /\ cb_raised' = [cb_raised EXCEPT ![s] = end.raised]
             /\ cb_propagated' = [cb_propagated EXCEPT ![s] = end.propagated]
    /\ cb_registered' = [cb_registered EXCEPT ![s] = callbacks]
    /\ cb_notified' = cb_notified \cup {s}
    /\ UNCHANGED <<cb_new, cb_legacy>>
    /\ UNCHANGED notCb

\* _notify_callbacks of the new scheduler
CbNotifyNew == CbNotify("new", cb_new)

\* _notify_callbacks of the legacy scheduler
CbNotifyLegacy == CbNotify("legacy", cb_legacy)

-----------------------------------------------------------------------------
(* Config of updater/config.py and of zed_updater/core/config.py           *)

\* Calls of the Config's methods explored.
MaxConfigCalls == 3

ConfigThreads == {"t1", "t2"}

ConfigKeys == {"a", "b"}

\* The order in which the keys of self.config are serialized.
KeyOrder == <<"a", "b">>

ConfigValues == {"v1", "v2"}

\* self.config = self.DEFAULT_CONFIG.copy()
DEFAULT_CONFIG == [k \in ConfigKeys |-> "v0"]

\* The file after open(..., 'w'): nothing in it.
Truncated == [k \in ConfigKeys |-> "unset"]

\* The file after a write over the longer content of another writer.
Garbled == [k \in ConfigKeys |-> "garbled"]

\* self.lock is free
NoOwner == "none"

ConfigOps == {"get", "set", "update"}

IdleThread ==
    [pc |-> "idle", op |-> "none", key |-> "a", val |-> "v0", save |-> FALSE,
     snap |-> Truncated, pos |-> 0, clean |-> TRUE]

\* The calls a thread can make: get_setting(key), set_setting(key, val,
\* save), update_settings({every key: val}, save).
ConfigCalls ==
    { [IdleThread EXCEPT !.op = "get", !.key = k] : k \in ConfigKeys }
    \cup { [IdleThread EXCEPT !.op = "set", !.key = k, !.val = v, !.save = s] :
             k \in ConfigKeys, v \in ConfigValues, s \in BOOLEAN }
    \cup { [IdleThread EXCEPT !.op = "update", !.val = v, !.save = s] :
             v \in ConfigValues, s \in BOOLEAN }

\* What a call does to self.config: self.config[key] = value, or
\* self.config.update(settings), one dictionary operation each.
ApplyCall(config, call) ==
    IF call.op = "set" THEN [config EXCEPT ![call.key] = call.val]
    ELSE IF call.op = "update" THEN [k \in ConfigKeys |-> call.val]
    ELSE config

\* The thread has the config file open for writing.
FileOpen(t) == cf_threads[t].pc \in {"dump", "close"}

\* The threads but t whose open file was written under by another writer.
Overwritten(threads, t) ==
    [u \in ConfigThreads |->
        IF u # t /\ threads[u].pc \in {"dump", "close"}
        THEN [threads[u] EXCEPT !.clean = FALSE]
        ELSE threads[u]]

CfInit ==
    /\ cf_class \in {"legacy", "core"}
    /\ cf_config = DEFAULT_CONFIG
    /\ cf_lock = NoOwner
    /\ cf_file = DEFAULT_CONFIG
    /\ cf_threads = [t \in ConfigThreads |-> IdleThread]
    /\ cf_calls = 0
    /\ cf_nosave = FALSE

CfPark ==
    /\ cf_class = "parked"
    /\ cf_config = DEFAULT_CONFIG
    /\ cf_lock = NoOwner
    /\ cf_file = DEFAULT_CONFIG
    /\ cf_threads = <<>>
    /\ cf_calls = 0
    /\ cf_nosave = FALSE

\* updater/config.py, get_setting: the dictionary is read; no lock is taken.
CfLegacyGet(t) ==
    /\ cf_class = "legacy"
    /\ cf_threads[t].pc = "idle"
    /\ cf_calls < MaxConfigCalls
    /\ cf_calls' = cf_calls + 1
    /\ UNCHANGED <<cf_class, cf_config, cf_lock, cf_file, cf_threads,
                   cf_nosave>>
    /\ UNCHANGED notCf

\* updater/config.py, set_setting and update_settings: the dictionary is
\* changed, and save_config follows with save; no lock is taken.
CfLegacySet(t) ==
    /\ cf_class = "legacy"
    /\ cf_threads[t].pc = "idle"
    /\ cf_calls < MaxConfigCalls
    /\ cf_calls' = cf_calls + 1
    /\ \E call \in ConfigCalls :
         /\ call.op # "get"
         /\ cf_config' = ApplyCall(cf_config, call)
         /\ cf_nosave' = (cf_nosave \/ ~call.save)
         /\ cf_threads' = [cf_threads EXCEPT ![t] =
                IF call.save THEN [call EXCEPT !.pc = "open"] ELSE IdleThread]
    /\ UNCHANGED <<cf_class, cf_lock, cf_file>>
    /\ UNCHANGED notCf

\* zed_updater/core/config.py: a call enters its `with self.lock`.
CfAcquire(t) ==
    /\ cf_class = "core"
    /\ cf_threads[t].pc = "idle"
    /\ cf_calls < MaxConfigCalls
    /\ cf_lock = NoOwner
    /\ cf_lock' = t
    /\ cf_calls' = cf_calls + 1
    /\ \E call \in ConfigCalls :
         /\ cf_nosave' = (cf_nosave \/ (call.op # "get" /\ ~call.save))
         /\ cf_threads' = [cf_threads EXCEPT ![t] = [call EXCEPT !.pc = "locked"]]
    /\ UNCHANGED <<cf_class, cf_config, cf_file>>
    /\ UNCHANGED notCf

\* zed_updater/core/config.py: the dictionary is read or changed and the
\* lock released; save_config follows a change with save.
CfLocked(t) ==
    /\ cf_threads[t].pc = "locked"
    /\ cf_lock = t
    /\ cf_config' = ApplyCall(cf_config, cf_threads[t])
    /\ cf_lock' = NoOwner
    /\ cf_threads' = [cf_threads EXCEPT ![t] =
            IF cf_threads[t].op # "get" /\ cf_threads[t].save
            THEN [@ EXCEPT !.pc = "save"] ELSE IdleThread]
    /\ UNCHANGED <<cf_class, cf_file, cf_calls, cf_nosave>>
    /\ UNCHANGED notCf

\* zed_updater/core/config.py, save_config: `with self.lock` is entered.
CfSaveAcquire(t) ==
    /\ cf_threads[t].pc = "save"
    /\ cf_lock = NoOwner
    /\ cf_lock' = t
    /\ cf_threads' = [cf_threads EXCEPT ![t].pc = "serialize"]
    /\ UNCHANGED <<cf_class, cf_config, cf_file, cf_calls, cf_nosave>>
    /\ UNCHANGED notCf

\* zed_updater/core/config.py, save_config: json.dumps(self.config) under
\* the lock, which is then released.
CfSerialize(t) ==
    /\ cf_threads[t].pc = "serialize"
    /\ cf_lock = t
    /\ cf_lock' = NoOwner
    /\ cf_threads' = [cf_threads EXCEPT ![t].pc = "open", ![t].snap = cf_config]
    /\ UNCHANGED <<cf_class, cf_config, cf_file, cf_calls, cf_nosave>>
    /\ UNCHANGED notCf

\* open(self.config_file, 'w'): the file is truncated. The legacy class
\* goes on to json.dump, the other one has its text already.
CfOpen(t) ==
    /\ cf_threads[t].pc = "open"
    /\ cf_file' = Truncated
    /\ cf_threads' = [cf_threads EXCEPT ![t] =
            IF cf_class = "legacy"
            THEN [@ EXCEPT !.pc = "dump", !.pos = 1, !.snap = Truncated,
                           !.clean = TRUE]
            ELSE [@ EXCEPT !.pc = "close", !.clean = TRUE]]
    /\ UNCHANGED <<cf_class, cf_config, cf_lock, cf_calls, cf_nosave>>
    /\ UNCHANGED notCf

\* updater/config.py, json.dump(self.config, f, indent=4): the encoder walks
\* the live dictionary and writes one key at a time into the file's buffer.
CfDump(t) ==
    /\ cf_threads[t].pc = "dump"
    /\ LET k == KeyOrder[cf_threads[t].pos]
       IN  cf_threads' = [cf_threads EXCEPT ![t] =
             [@ EXCEPT !.snap = [@ EXCEPT ![k] = cf_config[k]],
                       !.pos = @ + 1,
                       !.pc = IF cf_threads[t].pos = Len(KeyOrder)
                              THEN "close" ELSE "dump"]]
    /\ UNCHANGED <<cf_class, cf_config, cf_lock, cf_file, cf_calls, cf_nosave>>
    /\ UNCHANGED notCf

\* The file is closed and its buffer written from the start of the file:
\* the file holds the text, or what is left of a longer text another writer
\* has put there since this one opened the file sticks out behind it.
CfClose(t) ==
    /\ cf_threads[t].pc = "close"
    /\ \/ cf_file' = cf_threads[t].snap
       \/ /\ ~cf_threads[t].clean
          /\ cf_file' = Garbled
    /\ cf_threads' = [Overwritten(cf_threads, t) EXCEPT ![t] = IdleThread]
    /\ UNCHANGED <<cf_class, cf_config, cf_lock, cf_calls, cf_nosave>>
    /\ UNCHANGED notCf

-----------------------------------------------------------------------------
(* _safe_filename_from_url of updater/updater.py                           *)

\* A string is kept here as its runs: c is a character and n the number of
\* times it stands in a row. "a" stands for a letter or digit, ":" for a
\* character that is neither a word character nor '-', '.', '/' or '\',
\* and "%2e", "%2f", "%5c" for the percent-encoded '.', '/' and '\'.

\* Runs a path is put together from.
MaxPathRuns == 3

\* len(filename) > 100
MaxNameLength == 100

\* name[:95]
KeptNameLength == 95

\* A run of letters long enough to take a name near the limit of 100.
LongRun == KeptNameLength - 1

Run(c, n) == [c |-> c, n |-> n]

WordChars == {"a", "_"}

PathRuns ==
    { Run("a", 1), Run("a", LongRun), Run(".", 1), Run("/", 1), Run("\\", 1),
      Run(":", 1), Run("%2e", 1), Run("%2f", 1), Run("%5c", 1) }

\* Adjacent runs of one character are one run.
RECURSIVE Merge(_)
Merge(s) ==
    IF Len(s) <= 1 THEN s
    ELSE IF s[1].c = s[2].c
    THEN Merge(<<Run(s[1].c, s[1].n + s[2].n)>> \o SubSeq(s, 3, Len(s)))
    ELSE <<s[1]>> \o Merge(Tail(s))

\* len(s)
RECURSIVE RunLength(_)
RunLength(s) == IF s = <<>> THEN 0 ELSE s[1].n + RunLength(Tail(s))

\* s[:k]
RECURSIVE RunPrefix(_, _)
RunPrefix(s, k) ==
    IF s = <<>> \/ k <= 0 THEN <<>>
    ELSE IF s[1].n >= k THEN <<Run(s[1].c, k)>>
    ELSE <<s[1]>> \o RunPrefix(Tail(s), k - s[1].n)

\* The same string with every character replaced by f of it.
MapChars(s, f(_)) == Merge([i \in 1..Len(s) |-> Run(f(s[i].c), s[i].n)])

Decoded(c) ==
    IF c = "%2e" THEN "."
    ELSE IF c = "%2f" THEN "/"
    ELSE IF c = "%5c" THEN "\\"
    ELSE c

\* urllib.parse.unquote
unquote(s) == MapChars(s, Decoded)

\* '..' in s; every pattern of the list at line 330 holds '..'.
HasDotDot(s) == \E i \in 1..Len(s) : s[i].c = "." /\ s[i].n >= 2

\* The separators os.path splits a path at.
Separators(platform) == IF platform = "nt" THEN {"/", "\\"} ELSE {"/"}

\* os.path.basename: what follows the last separator.
basename(path, platform) ==
    LET seps == { i \in 1..Len(path) : path[i].c \in Separators(platform) }
        last == IF seps = {} THEN 0
                ELSE CHOOSE i \in seps : \A j \in seps : j <= i
    IN  SubSeq(path, last + 1, Len(path))

HasDot(s) == \E i \in 1..Len(s) : s[i].c = "."

SanitizeNothing(filename) == filename

KeepNameChar(c) == IF c \in WordChars \cup {"-", "."} THEN c ELSE "_"

\* re.sub(r'[^\w\-\.]', '_', filename)
Sanitize(filename) == MapChars(filename, KeepNameChar)

KeepDomainChar(c) == IF c \in WordChars \cup {"-"} THEN c ELSE "_"

\* re.sub(r'[^\w\-]', '_', domain)
SanitizeDomain(domain) == MapChars(domain, KeepDomainChar)

\* netloc.split(':')[0]
BeforeColon(netloc) ==
    LET colons == { i \in 1..Len(netloc) : netloc[i].c = ":" }
        first == IF colons = {} THEN Len(netloc) + 1
                 ELSE CHOOSE i \in colons : \A j \in colons : i <= j
    IN  SubSeq(netloc, 1, first - 1)

\* '_' and the 15 characters of strftime('%Y%m%d_%H%M%S'), then '.zip'
StampedZip == <<Run("_", 1), Run("a", 8), Run("_", 1), Run("a", 6),
                Run(".", 1), Run("a", 3)>>

\* f"{domain}_{timestamp}.zip"
DomainName(domain) == Merge(domain \o StampedZip)

\* f"download_{timestamp}.zip"
DownloadName == Merge(<<Run("a", 8)>> \o StampedZip)

\* f"zed_update_{timestamp}.zip"
FallbackName == Merge(<<Run("a", 3), Run("_", 1), Run("a", 6)>> \o StampedZip)

\* filename.lstrip('.')
lstrip_dots(s) == IF s # <<>> /\ s[1].c = "." THEN Tail(s) ELSE s

\* os.path.splitext: the extension begins at the last dot that has a
\* character other than a dot before it.
splitext(s) ==
    LET dots == { i \in 2..Len(s) : s[i].c = "." }
    IN  IF dots = {} THEN [name |-> s, ext |-> <<>>]
        ELSE LET i == CHOOSE d \in dots : \A e \in dots : e <= d
             IN  [name |-> Merge(SubSeq(s, 1, i - 1)
                                 \o (IF s[i].n > 1 THEN <<Run(".", s[i].n - 1)>>
                                     ELSE <<>>)),
                  ext |-> <<Run(".", 1)>> \o SubSeq(s, i + 1, Len(s))]

\* Lines 360-362: a name of more than 100 characters keeps 95 of its stem.
Shortened(filename) ==
    IF RunLength(filename) > MaxNameLength
    THEN LET parts == splitext(filename)
         IN  Merge(RunPrefix(parts.name, KeptNameLength) \o parts.ext)
    ELSE filename

StartsWithDot(s) == s # <<>> /\ s[1].c = "."

\* Lines 334-368 for a path that passed the traversal test.
NameFromPath(url, platform) ==
    LET path == unquote(url.path)
        base == basename(path, platform)
        named == IF base = <<>> \/ ~HasDot(base)
                 THEN DomainName(SanitizeDomain(BeforeColon(url.netloc)))
                 ELSE base
        clean == lstrip_dots(Sanitize(named))
        sep == \E i \in 1..Len(clean) : clean[i].c \in Separators(platform)
        filled == IF clean = <<>> THEN DownloadName ELSE clean
        short == Shortened(filled)
    IN  IF sep THEN FallbackName
        ELSE IF short = <<>> \/ HasDotDot(short) \/ StartsWithDot(short)
        THEN FallbackName
        ELSE short

\* _safe_filename_from_url: every exception ends in the fallback name.
safe_filename_from_url(url, platform) ==
    IF url.kind # "str" THEN FallbackName
    ELSE IF ~url.scheme \/ url.netloc = <<>> THEN FallbackName
    ELSE IF HasDotDot(unquote(url.path)) THEN FallbackName
    ELSE NameFromPath(url, platform)

Netlocs ==
    { <<>>,
      <<Run("a", 1), Run(".", 1), Run("a", 1)>>,
      <<Run("a", 1), Run(".", 1), Run("a", 1), Run(":", 1), Run("a", 1)>>,
      <<Run(".", 2)>> }

Paths == UNION { [1..k -> PathRuns] : k \in 0..MaxPathRuns }

\* Paths whose names come near or over the limit of 100 characters.
LongPaths ==
    { <<Run("/", 1), Run("a", LongRun), Run(".", 1), Run("a", LongRun),
        Run(".", 1), Run("a", 1)>>,
      <<Run("/", 1), Run("a", LongRun), Run(".", 1), Run("a", LongRun)>>,
      <<Run("/", 1), Run("a", LongRun), Run(":", 1), Run("a", LongRun),
        Run(".", 1), Run("a", 3)>>,
      <<Run("/", 1), Run("a", 1), Run(".", 1), Run("a", LongRun),
        Run("a", LongRun)>> }

\* What the method is called with: None or another non-string, a string
\* urlparse raises ValueError for, or a string taken apart by urlparse, the
\* empty string ('' has no scheme, no netloc and no path) among them.
UrlInputs ==
    { [kind |-> k, scheme |-> FALSE, netloc |-> <<>>, path |-> <<>>] :
        k \in {"not_str", "unparsable"} }
    \cup { [kind |-> "str", scheme |-> s, netloc |-> n, path |-> Merge(p)] :
            s \in BOOLEAN, n \in Netlocs, p \in Paths \cup LongPaths }

SfInit ==
    /\ sf_pc = "input"
    /\ sf_url \in UrlInputs
    /\ sf_platform \in {"posix", "nt"}
    /\ sf_result = <<>>

SfPark ==
    /\ sf_pc = "parked"
    /\ sf_url = [kind |-> "not_str", scheme |-> FALSE, netloc |-> <<>>,
                 path |-> <<>>]
    /\ sf_platform = "posix"
    /\ sf_result = <<>>

\* _safe_filename_from_url(url)
SafeFilenameFromUrl ==
    /\ sf_pc = "input"
    /\ sf_pc' = "done"
    /\ sf_result' = safe_filename_from_url(sf_url, sf_platform)
    /\ UNCHANGED <<sf_url, sf_platform>>
    /\ UNCHANGED notSf

-----------------------------------------------------------------------------
\* The added components when another component runs.
-----------------------------------------------------------------------------
(* has_update_available (updater/updater.py) and _check_for_updates        *)
(* (updater/scheduler.py) on the same versions                             *)

\* ZedUpdater.has_update_available (lines 259-287) for the release lookup's
\* outcome and the two versions.
has_update_available(info, current, latest) ==
    IF ~info THEN FALSE
    ELSE IF ~Truthy(current) THEN TRUE
    ELSE IF current = latest THEN FALSE
    ELSE IF IsDigit(current) /\ IsDigit(latest)
            /\ Len(current) = 8 /\ Len(latest) = 8
    THEN StrLess(current, latest)
    ELSE compare_versions(current, latest) < 0

\* UpdateScheduler._check_for_updates (lines 64-95): the update_available
\* it gives to _notify_callbacks, "none" when it returns without notifying.
check_for_updates(info, current, latest) ==
    IF ~info THEN "none"
    ELSE IF Truthy(current) /\ compare_versions(current, latest) < 0
    THEN "True"
    ELSE "False"

\* The versions a release can carry: tag_name is a string.
LatestInputs == VersionInputs \ {NoneVal}

HvInit ==
    /\ hv_pc = "input"
    /\ hv_info \in BOOLEAN
    /\ hv_current \in VersionInputs
    /\ hv_latest \in LatestInputs
    /\ hv_notified = "none"
    /\ hv_has = "none"

HvPark ==
    /\ hv_pc = "parked"
    /\ hv_info = FALSE
    /\ hv_current = <<>>
    /\ hv_latest = <<>>
    /\ hv_notified = "none"
    /\ hv_has = "none"

\* _check_for_updates runs on the versions.
HvCheckForUpdates ==
    /\ hv_pc \in {"input", "asked"}
    /\ hv_notified' = check_for_updates(hv_info, hv_current, hv_latest)
    /\ hv_pc' = IF hv_pc = "input" THEN "checked" ELSE "both"
    /\ UNCHANGED <<hv_info, hv_current, hv_latest, hv_has>>
    /\ UNCHANGED notHv

\* has_update_available runs on the same versions.
HvHasUpdateAvailable ==
    /\ hv_pc \in {"input", "checked"}
    /\ hv_has' = IF has_update_available(hv_info, hv_current, hv_latest)
                 THEN "True" ELSE "False"
    /\ hv_pc' = IF hv_pc = "input" THEN "asked" ELSE "both"
    /\ UNCHANGED <<hv_info, hv_current, hv_latest, hv_notified>>
    /\ UNCHANGED notHv

ExtPark == CuPark /\ NsPark /\ CbPark /\ CfPark /\ SfPark /\ HvPark

-----------------------------------------------------------------------------
(* Specifications                                                          *)

InitCompare == CmpInit /\ InstPark /\ DlPark /\ SchedPark /\ PipePark /\ ExtPark

NextCompare ==
    \/ CompareForward
    \/ CompareBackward

SpecCompare == InitCompare /\ [][NextCompare]_vars

InitInstall == InstInit /\ CmpPark /\ DlPark /\ SchedPark /\ PipePark /\ ExtPark

NextInstall ==
    \/ InstallBegin
    \/ StopZedProcesses
    \/ CreateBackup
    \/ ExtractSource
    \/ VerifyExecutable
    \/ RenameAside
    \/ CopyNewFile
    \/ VerifyCopy
    \/ RestoreOriginal
    \/ DeleteOld
    \/ RecordVersion
    \/ OuterRecover

SpecInstall == InitInstall /\ [][NextInstall]_vars

InitDownload == DlInit /\ CmpPark /\ InstPark /\ SchedPark /\ PipePark /\ ExtPark

NextDownload ==
    \/ DownloadBegin
    \/ RetryRequest
    \/ CheckStatus
    \/ StreamToDisk
    \/ WriteErrorCleanup
    \/ VerifyDownload
    \/ CleanupDownload

SpecDownload == InitDownload /\ [][NextDownload]_vars

InitSched == SchedInit /\ CmpPark /\ InstPark /\ DlPark /\ PipePark /\ ExtPark

NextSched ==
    \/ SchedStart
    \/ SchedRestart
    \/ SchedStop
    \/ SchedForceCheckNow
    \/ SchedUpdateConfig
    \/ \E t \in ThreadIds : StartupWake(t)
    \/ \E t \in ThreadIds : WorkerLoop(t)
    \/ \E t \in ThreadIds : WorkerWake(t)
    \/ \E t \in ThreadIds : CheckForUpdates(t)
    \/ \E t \in ThreadIds : NotifyCallbacks(t)
    \/ \E t \in ThreadIds : AutoUpdate(t)
    \/ \E t \in ThreadIds : DownloadOnly(t)
    \/ \E t \in ThreadIds : CheckAndUpdateDownload(t)
    \/ \E t \in ThreadIds : InstallReturns(t)

SpecSched == InitSched /\ [][NextSched]_vars

InitPipeline == PipeInit /\ CmpPark /\ InstPark /\ DlPark /\ SchedPark /\ ExtPark

NextPipeline ==
    \/ PipeCheckForUpdates
    \/ PipeDownloadAttempt
    \/ PipeInstallBegin
    \/ PipeMoveAside
    \/ PipeMoveNew
    \/ PipeChmod
    \/ PipeRemoveTmp
    \/ PipeBuildResult
    \/ PipeRestore
    \/ PipeFinish

SpecPipeline == InitPipeline /\ [][NextPipeline]_vars

CorePark == CmpPark /\ InstPark /\ DlPark /\ SchedPark /\ PipePark

InitUpdate == CuInit /\ CorePark /\ NsPark /\ CbPark /\ CfPark /\ SfPark /\ HvPark

NextUpdate ==
    \/ CuLookup
    \/ CuAnnounce
    \/ CuDownload
    \/ CuInstallStart
    \/ CuInstall
    \/ CuComplete
    \/ CuCleanup
    \/ CuHandler

SpecUpdate == InitUpdate /\ [][NextUpdate]_vars

InitNewSched == NsInit /\ CorePark /\ CuPark /\ CbPark /\ CfPark /\ SfPark /\ HvPark

NextNewSched ==
    \/ NsStart
    \/ NsStop
    \/ NsRestart
    \/ NsStopReturns
    \/ NsForceCheckNow
    \/ NsForceCheckReturns
    \/ NsUpdateScheduleConfig
    \/ NsSetAutoCheck
    \/ NsTick
    \/ NsWorkerTop
    \/ NsWorkerWait
    \/ NsWorkerIdle
    \/ NsWorkerErrorWait
    \/ NsWorkerCheckReturns
    \/ NsWorkerSleep

SpecNewSched == InitNewSched /\ [][NextNewSched]_vars

\* The worker thread is scheduled for as long as it can take a step: its
\* waits time out or are ended by the event, and the update check it is in
\* comes back.
SpecNewSchedFair == SpecNewSched /\ WF_vars(NsWorker)

InitNotify == CbInit /\ CorePark /\ CuPark /\ NsPark /\ CfPark /\ SfPark /\ HvPark

NextNotify ==
    \/ CbAddNew
    \/ CbAddLegacy
    \/ CbRemoveNew
    \/ CbRemoveLegacy
    \/ CbNotifyNew
    \/ CbNotifyLegacy

SpecNotify == InitNotify /\ [][NextNotify]_vars

InitConfig == CfInit /\ CorePark /\ CuPark /\ NsPark /\ CbPark /\ SfPark /\ HvPark

NextConfig ==
    \/ \E t \in ConfigThreads : CfLegacyGet(t)
    \/ \E t \in ConfigThreads : CfLegacySet(t)
    \/ \E t \in ConfigThreads : CfAcquire(t)
    \/ \E t \in ConfigThreads : CfLocked(t)
    \/ \E t \in ConfigThreads : CfSaveAcquire(t)
    \/ \E t \in ConfigThreads : CfSerialize(t)
    \/ \E t \in ConfigThreads : CfOpen(t)
    \/ \E t \in ConfigThreads : CfDump(t)
    \/ \E t \in ConfigThreads : CfClose(t)

SpecConfig == InitConfig /\ [][NextConfig]_vars

InitFilename == SfInit /\ CorePark /\ CuPark /\ NsPark /\ CbPark /\ CfPark /\ HvPark

NextFilename == SafeFilenameFromUrl

SpecFilename == InitFilename /\ [][NextFilename]_vars

InitHasUpdate == HvInit /\ CorePark /\ CuPark /\ NsPark /\ CbPark /\ CfPark /\ SfPark

NextHasUpdate == HvCheckForUpdates \/ HvHasUpdateAvailable

SpecHasUpdate == InitHasUpdate /\ [][NextHasUpdate]_vars

-----------------------------------------------------------------------------
(* Claims                                                                  *)

\* The copy step of the current call failed: copy2 raised, or the copy's
\* size was found different from the source's.
CopyStepFailed ==
    \/ in_copy \in {"raise_before", "raise_partial"}
    \/ in_copy = "short"

\* C1: when targetPath existed before the call and the copy step failed,
\* install_update returns with targetPath holding exactly the original bytes
\* (stated here for the runs in which no restoring rename raised).
C1_CopyFailureKeepsOriginal ==
    (in_pc = "done" /\ in_pre.exists /\ CopyStepFailed /\ in_restore # "failed")
        => (fs_target.exists /\ fs_target.bytes = in_pre.bytes)

\* C2: whenever install_update returns and targetPath existed non-empty
\* before the call, targetPath exists and is not zero-length (stated here
\* for the runs in which no restoring rename raised).
C2_TargetNeverMissingOrEmpty ==
    (in_pc = "done" /\ in_pre.exists /\ Len(in_pre.bytes) > 0
        /\ in_restore # "failed")
        => (fs_target.exists /\ Len(fs_target.bytes) > 0)

\* The server fails the first two requests and answers the third.
TwoFailuresThenResponse ==
    /\ dl_script[1] # "response"
    /\ dl_script[2] # "response"
    /\ dl_script[3] = "response"

\* The response received is a 200 with a complete body of a valid signature.
ResponseIsGood ==
    /\ dl_resp.status = StatusOK
    /\ ~dl_resp.raises
    /\ dl_resp.clen = Len(dl_resp.body)
    /\ \/ SubSeq(dl_resp.body, 1, 2) = <<"M", "Z">>
       \/ (Len(dl_resp.body) >= 4
           /\ SubSeq(dl_resp.body, 1, 4) = <<"P", "K", "03", "04">>)

\* C5: with retry_count = 3, when the first two fetch attempts raise (any
\* exception) and the third succeeds, download_update has issued exactly 3
\* requests when it returns, and returns the path of a file holding the
\* third response's body.
C5_ThirdAttemptDelivers ==
    (dl_pc = "done" /\ dl_end # "no_url" /\ retry_count = 3
        /\ TwoFailuresThenResponse)
        => /\ dl_requests = 3
           /\ (ResponseIsGood /\ dl_end # "write_error")
                => (dl_result = "path" /\ dl_file.exists
                    /\ dl_file.bytes = dl_resp.body)

\* Every request the server is asked fails.
AllFetchesFail == \A i \in DOMAIN dl_script : dl_script[i] # "response"

\* C6 as stated: when every fetch attempt fails, download_update issues at
\* most retry_count requests, returns None, and no file is at the download
\* path.
C6_NoFileAfterAllFetchesFail ==
    (dl_pc = "done" /\ dl_end # "no_url" /\ AllFetchesFail)
        => /\ dl_requests <= retry_count
           /\ dl_result = "None"
           /\ ~dl_file.exists

\* C6 amended: when every fetch attempt fails, download_update issues at
\* most retry_count requests, returns None, and has not touched the download
\* path: what was there before the call (nothing, or the file an earlier
\* call downloaded) is there after it.
C6_FailedFetchLeavesPathUntouched ==
    (dl_pc = "done" /\ dl_end # "no_url" /\ AllFetchesFail)
        => /\ dl_requests <= retry_count
           /\ dl_result = "None"
           /\ dl_file = dl_pre

\* C6 witness: all three attempts were made and failed, and the call returned.
C6_Witness ==
    /\ dl_pc = "done"
    /\ AllFetchesFail
    /\ dl_end = "fetch_failed"
    /\ dl_requests = 3
    /\ Len(dl_sleeps) = 2
    /\ dl_result = "None"

\* The returns that follow a body that was short, empty, of a wrong
\* signature, or not written.
RejectedBody == dl_end \in {"size_mismatch", "empty", "bad_magic", "write_error"}

C8_SizeMismatchIsRetried ==
    ~(dl_pc = "done" /\ dl_end = "size_mismatch" /\ dl_requests < retry_count)

\* An 8-digit date stamp.
IsDateStamp(v) == v # NoneVal /\ Len(v) = 8 /\ \A i \in 1..8 : v[i] \in Digits

\* C9: when exactly one argument is an 8-digit date stamp and the other a
\* semantic version, compare_versions names the date stamp the newer one in
\* either position, so the two directions have opposite signs.
C9_DateStampWinsBothWays ==
    (cv_pc = "both"
        /\ \/ (IsDateStamp(cv_current) /\ cv_latest \in SemVers)
           \/ (cv_current \in SemVers /\ IsDateStamp(cv_latest)))
        => /\ IsDateStamp(cv_current) => cv_result = 1
           /\ IsDateStamp(cv_latest) => cv_result = -1
           /\ cv_result = -cv_reverse

\* C10: for 8-digit date stamps a and b, compare(a, b) = -compare(b, a), and
\* compare(a, b) = 0 exactly when a = b.
C10_DateOrderAntisymmetric ==
    (cv_pc = "both" /\ IsDateStamp(cv_current) /\ IsDateStamp(cv_latest))
        => /\ cv_result = -cv_reverse
           /\ (cv_result = 0) = (cv_current = cv_latest)

\* C10 witness: two different date stamps compared in both directions, the
\* first being the later date.
C10_Witness ==
    /\ cv_pc = "both"
    /\ IsDateStamp(cv_current)
    /\ IsDateStamp(cv_latest)
    /\ cv_current # cv_latest
    /\ cv_result = 1
    /\ cv_reverse = -1

\* The threads that are inside install_update.
Installing == { t \in ThreadIds : sc_threads[t].pc = "installing" }

\* C3: with auto_download and auto_install enabled, at most one execution
\* of install_update is in progress at any time, whatever the interleaving
\* of the worker's job, the startup check and force_check_now's threads.
C3_AtMostOneInstall ==
    (sc_auto_download /\ sc_auto_install) => Cardinality(Installing) <= 1

\* C4: when the installed version is older than the latest release, the
\* download succeeded and every file operation of the install succeeded,
\* check_and_update returns success=true with the latest release's version,
\* and (backups being enabled) a backup of the old executable was made.
C4_HappyPathSucceeds ==
    (np_pc = "done" /\ np_installs = 1 /\ np_ops_ok
        /\ np_current # NoneVal /\ np_current # UnknownVersion
        /\ IsNewerVersion(np_current, np_latest))
        => /\ np_result.success
           /\ np_result.version = np_latest
           /\ np_backup_enabled => np_backup_made

\* The reference rule for dotted versions: every component kept, padded with
\* zeros to at least three.
RefParts(version) ==
    LET parts == PadParts(SplitDots(CleanVersion(version), <<>>))
    IN  [i \in 1..Len(parts) |-> ToInt(parts[i])]

\* Component-wise comparison; when all compared components are equal the
\* version with more components is the newer one.
RECURSIVE RefCompare(_, _)
RefCompare(c, l) ==
    IF c = <<>> /\ l = <<>> THEN 0
    ELSE IF c = <<>> THEN -1
    ELSE IF l = <<>> THEN 1
    ELSE IF Head(c) < Head(l) THEN -1
    ELSE IF Head(c) > Head(l) THEN 1
    ELSE RefCompare(Tail(c), Tail(l))

\* C11: for two dotted semantic versions compare_versions returns what the
\* reference rule gives: strip, split on '.', pad to at least 3 components,
\* compare as integers, the version with more components being newer when
\* all compared components are equal.
C11_SemVerFollowsReferenceRule ==
    (cv_pc = "both" /\ cv_current \in SemVers /\ cv_latest \in SemVers)
        => /\ cv_result = RefCompare(RefParts(cv_current), RefParts(cv_latest))
           /\ cv_reverse = RefCompare(RefParts(cv_latest), RefParts(cv_current))

\* A version argument with nothing to parse: None, the empty string, or a
\* string without a digit.
Malformed(v) == v = NoneVal \/ \A i \in 1..Len(v) : v[i] \notin Digits

\* C12: compare_versions returns -1 (and raises nothing) whenever the
\* current-version argument is malformed, whatever the second argument is.
C12_MalformedCurrentGivesMinusOne ==
    /\ (cv_pc \in {"called", "both"} /\ Malformed(cv_current)) => cv_result = -1
    /\ (cv_pc = "both" /\ Malformed(cv_latest)) => cv_reverse = -1

\* C12 witness: 'bad' was compared with '1.0.0' and with itself on the
\* other side.
C12_Witness ==
    /\ cv_pc = "both"
    /\ cv_current = <<"b", "a", "d">>
    /\ cv_latest \in {<<"1", ".", "0", ".", "0">>, <<>>}
    /\ cv_result = -1

\* The step in which create_backup copied the executable into the backup
\* directory (the copy is stamped with the clock, which then ticks).
BackupCreated == in_pc = "backup" /\ in_pc' = "extract" /\ now' = now + 1

\* C13: with backups enabled and backup_count = 3, every create_backup
\* leaves at most 3 backups, exactly 3 from the third one on, and those are
\* the most recently created: the backup just made is among them and every
\* backup deleted was created before every backup kept.
C13_NewestBackupsKept ==
    [][BackupCreated =>
         /\ Cardinality(fs_backups') = Min(backup_count, Cardinality(fs_backups) + 1)
         /\ \E b \in fs_backups' : b.id = now
         /\ \A d \in fs_backups \ fs_backups' :
              \A k \in fs_backups' : d.id < k.id]_vars

\* C14: check_and_update never lets an exception reach its caller: whatever
\* step raised, the progress callback in the failure handler included, it
\* returns a failure result.
C14_NeverPropagates ==
    /\ cu_result # "raised"
    /\ (cu_pc = "done" /\ cu_handled) => cu_result = "False"

\* C15: when the release lookup fails (transport error, error status,
\* unparseable payload, no assets), check_for_updates returns None and
\* check_and_update returns success with "no updates", having requested no
\* asset, called no install and left the installed file alone.
C15_FailedLookupIsBenign ==
    (np_pc \notin {"idle", "parked"} /\ np_lookup # "ok")
        => /\ np_pc = "done"
           /\ np_latest = NoneVal
           /\ np_result = Result(TRUE, "none", NoneVal)
           /\ np_asset_requests = 0
           /\ np_installs = 0
           /\ np_target = np_pre_target

\* C15 witness: a call whose lookup met an error status has returned.
C15_Witness ==
    /\ np_pc = "done"
    /\ np_lookup = "http_error"
    /\ np_result.success
    /\ np_asset_requests = 0

\* A dotted version: digits and dots only, with at least one dot.
IsDotted(v) ==
    /\ v # NoneVal
    /\ \A i \in 1..Len(v) : v[i] \in Digits \cup {"."}
    /\ \E i \in 1..Len(v) : v[i] = "."

\* The installed version is not older than the latest release, by the
\* reference rule for dotted versions.
CurrentNotOlder ==
    /\ IsDotted(np_current)
    /\ IsDotted(np_latest)
    /\ RefCompare(RefParts(np_current), RefParts(np_latest)) >= 0

\* C16: when the installed version is not older than the latest release
\* and force_download_latest is off, check_and_update returns success
\* without a request to the asset URL and without a call of install_update,
\* and the installed file is unchanged.
C16_NoUpdateNoDownload ==
    (np_pc \notin {"idle", "parked"} /\ np_lookup = "ok" /\ ~np_force
        /\ CurrentNotOlder)
        => /\ np_pc = "done"
           /\ np_result.success
           /\ np_asset_requests = 0
           /\ np_installs = 0
           /\ np_target = np_pre_target

\* C16 witness: installed 1.0.0, latest release 1.0.0, not forced; the call
\* has returned.
C16_Witness ==
    /\ np_pc = "done"
    /\ np_lookup = "ok"
    /\ ~np_force
    /\ np_current = <<"1", ".", "0", ".", "0">>
    /\ np_latest = np_current
    /\ np_result.success
    /\ np_asset_requests = 0

\* The worker threads that have not ended.
LiveWorkers ==
    { t \in ThreadIds : sc_threads[t].kind = "worker" /\ sc_threads[t].pc # "dead" }

\* C17: after any sequence of start(), stop() and restart(), at most one
\* _scheduler_worker thread is alive and looping: while the stop event is
\* clear (so that every live worker passes its next loop test) there is at
\* most one live worker; a worker that stop() signalled does not go on
\* looping after a later start().
C17_AtMostOneWorker ==
    ~sc_stop_event => Cardinality(LiveWorkers) <= 1


\* What stop() can change of the scheduler.
NsSchedulerState == <<ns_thread, ns_stop_event, ns_is_running,
                      ns_next_run_time, ns_last_run_time, ns_last_result>>

\* A step of a stop() that was called after an earlier stop() had returned
\* and no worker was started since: its call, or its return from the join.
NsStopAgain ==
    \/ /\ ns_caller = "idle"
       /\ ns_stops >= 1
       /\ ns_stops' = ns_stops + 1
    \/ /\ ns_caller = "joining"
       /\ ~ns_restart
       /\ ns_stops >= 2
       /\ ns_caller' = "idle"

\* C18: once the stop event is set by stop() the worker thread ends (start()
\* cannot clear the event while the worker lives, and the worker is given
\* its steps, the end of the update check it is in among them); and a
\* stop() on the stopped scheduler changes nothing of the scheduler.
C18_StopEndsLoopAndIsIdempotent ==
    /\ (ns_stop_event /\ NsThreadAlive(ns_thread)) ~> ~NsThreadAlive(ns_thread)
    /\ [][NsStopAgain => UNCHANGED NsSchedulerState]_vars

\* stop() was called twice on a scheduler whose worker had run a check, the
\* second time on the stopped scheduler, and the worker has ended.
C18_Witness ==
    /\ ns_stops >= 2
    /\ ns_caller = "idle"
    /\ ns_stop_event
    /\ ns_thread = "dead"
    /\ ns_last_result # "None"

\* C19: force_check_now has the update check run in another thread than its
\* caller's, so the caller is never inside check_and_update; and neither
\* its call nor its return changes next_run_time.
C19_ForceCheckReturnsAtOnce ==
    /\ [](ns_caller # "check")
    /\ [][(ns_caller = "check") # (ns_caller' = "check")
            => ns_next_run_time' = ns_next_run_time]_vars

\* C20: a notification of either scheduler calls every registration of its
\* list once, in the order of the list, whichever of the calls raise, and
\* no exception leaves _notify_callbacks.
C20_EveryObserverNotifiedInOrder ==
    \A s \in cb_notified :
        /\ cb_invoked[s] = cb_registered[s]
        /\ ~cb_propagated[s]

\* Both schedulers have notified two registrations of which the first
\* raised.
C20_Witness ==
    \A s \in Schedulers :
        /\ s \in cb_notified
        /\ Len(cb_registered[s]) >= 2
        /\ 1 \in cb_raised[s]
        /\ Len(cb_invoked[s]) = Len(cb_registered[s])


\* The threads that have the config file open for writing.
ConfigWriters == { t \in ConfigThreads : FileOpen(t) }

\* C21: with the Config of updater/config.py, a thread that writes the
\* config file holds the Config's lock, so that at most one thread has the
\* file open for writing at any time.
C21_WritesUnderLock ==
    cf_class = "legacy" =>
        /\ \A t \in ConfigWriters : cf_lock = t
        /\ Cardinality(ConfigWriters) <= 1

\* Every call made has returned.
ConfigQuiet == \A t \in ConfigThreads : cf_threads[t].pc = "idle"

\* C29: with the Config of zed_updater/core/config.py, once every call of
\* a run of set_setting and update_settings calls with save=True has
\* returned, the config file holds the configuration in memory.
C29_FileEqualsMemory ==
    (cf_class = "core" /\ ConfigQuiet /\ ~cf_nosave /\ cf_calls >= 1)
        => cf_file = cf_config


\* The name is one path segment: not empty, without '..', without '/' and
\* '\', and not beginning with a dot.
SafeName(name) ==
    /\ name # <<>>
    /\ RunLength(name) >= 1
    /\ ~HasDotDot(name)
    /\ \A i \in 1..Len(name) : name[i].c \notin {"/", "\\", "%2f", "%5c", "%2e"}
    /\ ~StartsWithDot(name)

\* C22: for every argument _safe_filename_from_url returns a name that is
\* not empty, holds no '..', no '/' and no '\', and does not begin with a
\* dot; it never raises (every exception of its body is caught and answered
\* with the fallback name, so the call returns a name for every argument).
C22_FilenameIsOneSegment ==
    sf_pc = "done" => SafeName(sf_result)

\* A path with an encoded '..' and an encoded separator was given together
\* with a scheme and a host, and the call has returned.
C22_Witness ==
    /\ sf_pc = "done"
    /\ sf_url.kind = "str"
    /\ sf_url.scheme
    /\ sf_url.netloc # <<>>
    /\ HasDotDot(unquote(sf_url.path))
    /\ \E i \in 1..Len(sf_url.path) : sf_url.path[i].c = "%2f"
    /\ SafeName(sf_result)


\* C23: the percent values one call of check_and_update passes to the
\* progress callback never decrease; those reported while the download runs
\* lie in 0..80 and those reported from the install on in 80..100.
C23_ProgressNonDecreasing ==
    /\ [](\A i, j \in 1..Len(np_progress) :
            i <= j => np_progress[i] <= np_progress[j])
    /\ [][np_pc = "download"
            => \A i \in (Len(np_progress) + 1)..Len(np_progress') :
                  /\ np_progress'[i] >= 0
                  /\ np_progress'[i] <= InstallPercent]_vars
    /\ [][np_pc \notin {"idle", "download"}
            => \A i \in (Len(np_progress) + 1)..Len(np_progress') :
                  /\ np_progress'[i] >= InstallPercent
                  /\ np_progress'[i] <= 100]_vars


\* The scheduled force_check_now of the worker comes back.
NsScheduledCheckDone == ns_thread = "check" /\ ns_thread' = "sleep"

\* The loop, still running after a scheduled check, computes next_run_time.
NsRecomputeAfterCheck ==
    ns_thread = "top" /\ ns_checked /\ ns_thread' \in {"wait", "idle"}

\* The parts of the order of a scheduled run that hold whatever the
\* configuration: the check starts when its time has come, its result and
\* time are recorded (and the observers notified) with next_run_time
\* untouched, and the loop computes next_run_time afterwards.
NsRunOrder ==
    /\ [][(ns_thread = "wait" /\ ns_thread' = "check")
            => ns_now >= ns_next_run_time]_vars
    /\ [][NsScheduledCheckDone
            => /\ ns_last_result' \in CheckOutcomes
               /\ ns_last_run_time' = ns_now
               /\ ns_next_run_time' = ns_next_run_time]_vars

FailedAttempts ==
    IF dl_pc = "request" \/ dl_end = "fetch_failed" THEN dl_requests
    ELSE IF dl_requests = 0 THEN 0
    ELSE dl_requests - 1

\* a/b < c/d for waits kept as fractions
WaitLess(w, v) == w[1] * v[2] < v[1] * w[2]

\* C25: every failed attempt but the last allowed one is followed by a wait,
\* the wait after the k-th failed attempt (k from 0) is backoff_factor^k, so
\* the waits grow strictly for the factor 1.5, and no wait follows the last
\* allowed attempt.
C25_BackoffAfterEachFailure ==
    dl_pc \in {"request", "status", "stream", "verify", "cleanup", "done"} =>
        /\ \A i \in 1..Len(dl_sleeps) : dl_sleeps[i] = WaitTime(i - 1)
        /\ \A i, j \in 1..Len(dl_sleeps) :
              i < j => WaitLess(dl_sleeps[i], dl_sleeps[j])
        /\ Len(dl_sleeps) = Min(FailedAttempts, MaxRetries - 1)


\* The running call has renamed the target to the '.exe.old' sibling
\* (line 670 has returned) and has not yet passed the delete of 701-707.
RenamedAside ==
    /\ in_temp_old
    /\ \/ in_pc \in {"copy", "check", "cleanup"}
       \/ in_pc = "handler" /\ in_copy # "none"

\* The new file is at the target with the size of the install source.
CopyVerified ==
    /\ in_pc = "cleanup"
    /\ fs_target.exists
    /\ Len(fs_target.bytes) = Len(in_source)

\* C26: from the rename of the target to '.exe.old' on, the sibling exists
\* and holds the executable the call found; it disappears without being
\* renamed back only in the step after the copy was verified.
C26_OldDeletedOnlyAfterVerifiedCopy ==
    /\ [](RenamedAside => fs_old.exists /\ fs_old = in_pre)
    /\ [][ (RenamedAside /\ ~fs_old'.exists /\ fs_target' # fs_old)
              => CopyVerified ]_vars

C26_Witness ==
    /\ in_pc = "record"
    /\ in_temp_old
    /\ in_pre.exists
    /\ ~fs_old.exists
    /\ fs_target = File(in_source, fs_target.mtime)


\* C27: current_version becomes the latest release's version exactly when
\* install_update returns True; a call that returns False leaves it as it
\* was.
C27_VersionRecordedIffSuccess ==
    /\ [](in_pc = "done" /\ in_result = "True"
             => cfg_current_version = in_latest)
    /\ [][ cfg_current_version' # cfg_current_version
             => in_result' = "True" /\ cfg_current_version' = in_latest ]_vars


\* restart() returns to its caller: the stop() it began on a live worker is
\* over and its start() has run.
NsRestartReturns ==
    ns_caller = "joining" /\ ns_restart /\ ns_caller' = "idle"

\* C28: with auto-check enabled, restart() on a running scheduler ends with
\* start() having started a worker (its True return: is_running set, the
\* stop event cleared, a live worker), however long the worker's update
\* check lasts; and whenever no call is under way, is_running is set only
\* while a worker is alive.
C28_RestartLeavesRunningWorker ==
    /\ [][ NsRestartReturns /\ ns_auto_check
             => /\ ns_is_running'
                /\ ~ns_stop_event'
                /\ NsThreadAlive(ns_thread') ]_vars
    /\ [](ns_caller = "idle" /\ ns_is_running => NsThreadAlive(ns_thread))


\* C30: whatever the current version (None included) and the latest one,
\* _check_for_updates notifies update_available = True exactly when
\* has_update_available returns True for the same pair.
C30_SchedulerAgreesWithUpdater ==
    hv_pc = "both" => ((hv_notified = "True") <=> (hv_has = "True"))

====
